---- MODULE Spec2Model ----
(***************************************************************************)
(* A model of the nanobot core: the tool registry and its schema           *)
(* validation, the filesystem tools' sandbox check, the session store, the *)
(* orchestration loop (AgentLoop) with memory consolidation, and the       *)
(* background delegates (SubagentManager).                                 *)
(*                                                                         *)
(* Texts are sequences of tokens, so that "begins with" is decidable;      *)
(* JSON values and schemas are uniform records.                            *)
(***************************************************************************)
EXTENDS Integers, Sequences, FiniteSets, TLC

VARIABLES
    tools,        \* ToolRegistry._tools: name -> tool (registry.py:43)
    lastExec,     \* the last ToolRegistry.execute call and what came of it
    latest,       \* per name, the tool registered last and not unregistered since
    cache,        \* SessionManager._cache: key -> Session (manager.py:137)
    disk,         \* the session files: path -> records (manager.py:136)
    clock,        \* what datetime.now() returns
    lastSave,     \* the session as the latest SessionManager.save saw it
    inbound,      \* MessageBus.inbound (queue.py:50)
    outbound,     \* MessageBus.outbound (queue.py:52)
    published,    \* how many messages the channels have published so far
    memory_file,  \* MEMORY.md, the durable blob (memory.py:51)
    history_file, \* HISTORY.md, the log's entries (memory.py:52)
    files,        \* the file system the tools act on: path -> content
    cfg,          \* the configuration and the inputs the environment offers
    run,          \* the pass the run loop is in: its locals and position
    message_ctx,  \* MessageTool._default_channel/_default_chat_id
    spawn_ctx,    \* SpawnTool._origin_channel/_origin_chat_id
    subagents,    \* the delegates spawned so far: locals and position of each
    running_tasks, \* SubagentManager._running_tasks (subagent.py:99)
    other,        \* the pass that is suspended while `run` takes its steps
    bus,          \* the outbound side of the bus: subscribers and dispatcher
    cron          \* CronService: its store, its timer task and the tick tasks

registryVars == <<tools, lastExec, latest>>
storeVars == <<cache, disk, clock, lastSave>>
agentVars == <<inbound, outbound, published, memory_file, history_file, files, cfg,
               run, message_ctx, spawn_ctx, subagents, running_tasks, other, bus, cron>>
vars == <<tools, lastExec, latest, cache, disk, clock, lastSave, inbound, outbound,
          published, memory_file, history_file, files, cfg, run, message_ctx,
          spawn_ctx, subagents, running_tasks, other, bus, cron>>

(***************************************************************************)
(* JSON values, as Python holds them after json.loads.                     *)
(*   t    : the Python type ("string", "integer", "float", "boolean",      *)
(*          "array", "object", "null")                                     *)
(*   n    : an integer's value; a boolean's 0/1; twice a float's value     *)
(*   s    : a string's characters                                          *)
(*   kids : an object's <<key, value>> pairs in order; an array's          *)
(*          <<"", item>> pairs                                             *)
(***************************************************************************)
JStr(s) == [t |-> "string", n |-> 0, s |-> s, kids |-> <<>>]
JInt(n) == [t |-> "integer", n |-> n, s |-> <<>>, kids |-> <<>>]
JFloat(twice) == [t |-> "float", n |-> twice, s |-> <<>>, kids |-> <<>>]
JBool(b) == [t |-> "boolean", n |-> IF b THEN 1 ELSE 0, s |-> <<>>, kids |-> <<>>]
JNull == [t |-> "null", n |-> 0, s |-> <<>>, kids |-> <<>>]
JArr(items) == [t |-> "array", n |-> 0, s |-> <<>>,
                kids |-> [i \in 1..Len(items) |-> <<"", items[i]>>]]
JObj(pairs) == [t |-> "object", n |-> 0, s |-> <<>>, kids |-> pairs]

\* k in val, for a dict val
ObjHas(val, k) == \E i \in 1..Len(val.kids) : val.kids[i][1] = k
ObjGet(val, k) == val.kids[CHOOSE i \in 1..Len(val.kids) : val.kids[i][1] = k][2]

\* Twice the numeric value of a Python number (bool is an int subclass).
PyNum(v) == IF v.t = "float" THEN v.n ELSE 2 * v.n
PyIsNumber(v) == v.t \in {"integer", "float", "boolean"}

\* Python's ==, as `val not in schema["enum"]` applies it: numbers compare by
\* value whatever their type (True == 1, 1.0 == 1).
PyEq(a, b) ==
    IF PyIsNumber(a) /\ PyIsNumber(b) THEN PyNum(a) = PyNum(b) ELSE a = b

(***************************************************************************)
(* Tool._TYPE_MAP and isinstance (base.py:46-53, 117).                     *)
(***************************************************************************)
_TYPE_MAP ==
    [string  |-> {"string"},
     integer |-> {"integer", "boolean"},            \* isinstance(True, int)
     number  |-> {"integer", "float", "boolean"},
     boolean |-> {"boolean"},
     array   |-> {"array"},
     object  |-> {"object"}]

IsInstanceOfType(val, t) == val.t \in _TYPE_MAP[t]

(***************************************************************************)
(* Schemas.  type = "" stands for an absent "type" key.                    *)
(***************************************************************************)
SchemaBase ==
    [type |-> "", hasEnum |-> FALSE, enum |-> {},
     hasMin |-> FALSE, minimum |-> 0, hasMax |-> FALSE, maximum |-> 0,
     hasMinLen |-> FALSE, minLength |-> 0, hasMaxLen |-> FALSE, maxLength |-> 0,
     props |-> <<>>, required |-> <<>>, items |-> <<>>]

SString == [SchemaBase EXCEPT !.type = "string"]
SInteger == [SchemaBase EXCEPT !.type = "integer"]
SIntRange(lo, hi) ==
    [SchemaBase EXCEPT !.type = "integer", !.hasMin = TRUE, !.minimum = lo,
                       !.hasMax = TRUE, !.maximum = hi]
SObject(props, required) ==
    [SchemaBase EXCEPT !.type = "object", !.props = props, !.required = required]
SArray(item) == [SchemaBase EXCEPT !.type = "array", !.items = <<item>>]

PropHas(schema, k) == \E i \in 1..Len(schema.props) : schema.props[i][1] = k
PropGet(schema, k) ==
    schema.props[CHOOSE i \in 1..Len(schema.props) : schema.props[i][1] = k][2]

\* One validation error: what is wrong, and the path of the value.
VErr(kind, path) == [kind |-> kind, path |-> path]

RECURSIVE FlattenSeq(_)
FlattenSeq(ss) == IF ss = <<>> THEN <<>> ELSE Head(ss) \o FlattenSeq(Tail(ss))

(***************************************************************************)
(* Tool._validate (base.py:103-149).                                       *)
(***************************************************************************)
RECURSIVE _validate(_, _, _)
_validate(val, schema, path) ==
    LET t == schema.type IN
    IF t \in DOMAIN _TYPE_MAP /\ ~IsInstanceOfType(val, t)
    THEN <<VErr("type", path)>>
    ELSE
      LET enumErrs ==
            IF schema.hasEnum /\ ~(\E e \in schema.enum : PyEq(val, e))
            THEN <<VErr("enum", path)>> ELSE <<>>
          rangeErrs ==
            IF t \in {"integer", "number"}
            THEN (IF schema.hasMin /\ PyNum(val) < 2 * schema.minimum
                  THEN <<VErr("minimum", path)>> ELSE <<>>)
                 \o
                 (IF schema.hasMax /\ PyNum(val) > 2 * schema.maximum
                  THEN <<VErr("maximum", path)>> ELSE <<>>)
            ELSE <<>>
          lenErrs ==
            IF t = "string"
            THEN (IF schema.hasMinLen /\ Len(val.s) < schema.minLength
                  THEN <<VErr("minLength", path)>> ELSE <<>>)
                 \o
                 (IF schema.hasMaxLen /\ Len(val.s) > schema.maxLength
                  THEN <<VErr("maxLength", path)>> ELSE <<>>)
            ELSE <<>>
          reqErrs ==
            IF t = "object"
            THEN FlattenSeq([i \in 1..Len(schema.required) |->
                     IF ~ObjHas(val, schema.required[i])
                     THEN <<VErr("required", path \o <<schema.required[i]>>)>>
                     ELSE <<>>])
            ELSE <<>>
          propErrs ==
            IF t = "object"
            THEN FlattenSeq([i \in 1..Len(val.kids) |->
                     IF PropHas(schema, val.kids[i][1])
                     THEN _validate(val.kids[i][2], PropGet(schema, val.kids[i][1]),
                                    path \o <<val.kids[i][1]>>)
                     ELSE <<>>])
            ELSE <<>>
          itemErrs ==
            IF t = "array" /\ schema.items # <<>>
            THEN FlattenSeq([i \in 1..Len(val.kids) |->
                     _validate(val.kids[i][2], schema.items[1], path \o <<"[]">>)])
            ELSE <<>>
      IN enumErrs \o rangeErrs \o lenErrs \o reqErrs \o propErrs \o itemErrs

(***************************************************************************)
(* Texts.  A text is a sequence of tokens; a formatted text keeps its      *)
(* literal head as its first token, so that "begins with" can be asked.    *)
(***************************************************************************)
BeginsWith(text, tok) == Len(text) > 0 /\ text[1] = tok

\* f"Error: Tool '{name}' not found" (registry.py:110)
NotFoundText(name) == <<"Error:", "Tool", name, "not found">>
\* f"Error: Invalid parameters for tool '{name}': " + "; ".join(errors)
\* (registry.py:116)
InvalidParamsText(name, errors) ==
    <<"Error:", "Invalid parameters for tool", name>>
        \o [i \in 1..Len(errors) |-> errors[i].kind]
\* f"Error executing {name}: {str(e)}" (registry.py:120)
ErrorExecutingText(name, e) == <<"Error executing", name>> \o e

(***************************************************************************)
(* The outcome of a Python call: it returns a text or raises an            *)
(* exception (an Exception subclass, carried as its message).  `invoked`   *)
(* records whether a tool's execute body was entered, and `eff` the        *)
(* effect of the body on the world, applied by the caller's action.        *)
(***************************************************************************)
NoEffect == [op |-> "none", path |-> <<>>, data |-> <<>>]
Return(text) == [kind |-> "return", text |-> text, invoked |-> FALSE, eff |-> NoEffect]
Raise(e) == [kind |-> "raise", text |-> e, invoked |-> FALSE, eff |-> NoEffect]
Invoked(r) == [r EXCEPT !.invoked = TRUE]

(***************************************************************************)
(* Paths (filesystem.py:38-61).  A path string is a sequence of            *)
(* characters; a resolved path is its sequence of components.  The model   *)
(* file system has no symbolic links.                                      *)
(***************************************************************************)
StartsWith(a, b) == Len(b) <= Len(a) /\ SubSeq(a, 1, Len(b)) = b

\* The components of a path string: the pieces between "/" characters.
RECURSIVE SplitPath(_)
SplitPath(cs) ==
    IF cs = <<>> THEN <<>>
    ELSE LET stops == {i \in 1..Len(cs) : cs[i] = "/"}
             cut == IF stops = {} THEN Len(cs) + 1
                    ELSE CHOOSE i \in stops : \A j \in stops : i <= j
             comp == SubSeq(cs, 1, cut - 1)
         IN (IF comp = <<>> THEN <<>> ELSE <<comp>>)
                \o SplitPath(SubSeq(cs, cut + 1, Len(cs)))

\* "." is dropped and ".." leaves the directory it follows.
RECURSIVE Normalize(_, _)
Normalize(done, comps) ==
    IF comps = <<>> THEN done
    ELSE IF Head(comps) = <<".">> THEN Normalize(done, Tail(comps))
    ELSE IF Head(comps) = <<".", ".">>
         THEN Normalize(IF done = <<>> THEN <<>> ELSE SubSeq(done, 1, Len(done) - 1),
                        Tail(comps))
    ELSE Normalize(Append(done, Head(comps)), Tail(comps))

\* The process's working directory and the user's home directory.
Cwd == << <<"c">> >>
Home == << <<"h">> >>

\* Path(path).expanduser().resolve()
Resolve(path) ==
    LET comps == SplitPath(path) IN
    IF path # <<>> /\ path[1] = "/" THEN Normalize(<<>>, comps)
    ELSE IF comps # <<>> /\ comps[1] = <<"~">> THEN Normalize(Home, Tail(comps))
    ELSE Normalize(Cwd, comps)

\* str(resolved)
PathStr(comps) ==
    IF comps = <<>> THEN <<"/">>
    ELSE FlattenSeq([i \in 1..Len(comps) |-> <<"/">> \o comps[i]])

\* allowed_dir = None
NoDir == <<>>

\* _resolve_path (filesystem.py:58-61): the test is on the two strings.
PathAllowed(path, allowed_dir) ==
    allowed_dir = NoDir
        \/ StartsWith(PathStr(Resolve(path)), PathStr(Resolve(allowed_dir)))

\* The test on components instead of characters.
PathAllowedByComponents(path, allowed_dir) ==
    allowed_dir = NoDir \/ StartsWith(Resolve(path), Resolve(allowed_dir))

PermissionErrorText(path, allowed_dir) ==
    <<"Path">> \o path \o <<"is outside allowed directory">> \o allowed_dir

(***************************************************************************)
(* The file system: `fs` maps the resolved path of each regular file to    *)
(* its content; a directory is a proper prefix of a file's path.           *)
(***************************************************************************)
IsFile(fs, p) == p \in DOMAIN fs
IsDir(fs, p) ==
    p = <<>> \/ \E f \in DOMAIN fs : Len(f) > Len(p) /\ SubSeq(f, 1, Len(p)) = p
Exists(fs, p) == IsFile(fs, p) \/ IsDir(fs, p)
\* Some directory on the way to p is a regular file.
ParentIsFile(fs, p) == \E n \in 1..(Len(p) - 1) : IsFile(fs, SubSeq(p, 1, n))

\* sorted(dir_path.iterdir()): the model's names in sorted order.
NameOrder == << <<"a">>, <<"b">>, <<"c">>, <<"e">>, <<"h">>, <<"p">>, <<"s">>,
                <<"w">>, <<"w", "x">> >>
Children(fs, p) ==
    {f[Len(p) + 1] : f \in {g \in DOMAIN fs : Len(g) > Len(p) /\ SubSeq(g, 1, Len(p)) = p}}
Listing(fs, p) ==
    LET InDir(name) == name \in Children(fs, p)
        names == SelectSeq(NameOrder, InDir)
    IN FlattenSeq([i \in 1..Len(names) |->
           <<IF IsDir(fs, Append(p, names[i])) THEN "dir" ELSE "file">> \o names[i]])

\* content.count(old_text): occurrences that do not overlap.
RECURSIVE CountOcc(_, _)
CountOcc(content, old) ==
    IF old = <<>> THEN Len(content) + 1
    ELSE IF Len(content) < Len(old) THEN 0
    ELSE IF SubSeq(content, 1, Len(old)) = old
         THEN 1 + CountOcc(SubSeq(content, Len(old) + 1, Len(content)), old)
    ELSE CountOcc(Tail(content), old)

\* content.replace(old_text, new_text, 1)
ReplaceFirst(content, old, new) ==
    LET at == CHOOSE i \in 1..(Len(content) + 1) :
                  /\ SubSeq(content, i, i + Len(old) - 1) = old
                  /\ \A j \in 1..(i - 1) : SubSeq(content, j, j + Len(old) - 1) # old
    IN SubSeq(content, 1, at - 1) \o new \o SubSeq(content, at + Len(old), Len(content))

(***************************************************************************)
(* Tools.  A tool is its name, its parameters schema, the names its        *)
(* execute signature requires, and its body.  Besides the repository's     *)
(* own tools, the table holds three tools of the kind a caller may         *)
(* register: one with a nested schema, one whose body raises, and one      *)
(* whose schema is not of object type.                                     *)
(***************************************************************************)
\* ReadFileTool.parameters, ListDirTool.parameters (filesystem.py:88-98, 303-313)
PathSchema == SObject(<< <<"path", SString>> >>, <<"path">>)
\* WriteFileTool.parameters (filesystem.py:150-164)
WriteFileSchema ==
    SObject(<< <<"path", SString>>, <<"content", SString>> >>, <<"path", "content">>)
\* EditFileTool.parameters (filesystem.py:216-234)
EditFileSchema ==
    SObject(<< <<"path", SString>>, <<"old_text", SString>>, <<"new_text", SString>> >>,
            <<"path", "old_text", "new_text">>)
\* SpawnTool.parameters (spawn.py:86-100)
SpawnSchema == SObject(<< <<"task", SString>>, <<"label", SString>> >>, <<"task">>)
\* MessageTool.parameters (message.py:94-112)
MessageSchema ==
    SObject(<< <<"content", SString>>, <<"channel", SString>>, <<"chat_id", SString>> >>,
            <<"content">>)
\* ExecTool.parameters (shell.py:92-106)
ShellSchema == SObject(<< <<"command", SString>>, <<"working_dir", SString>> >>, <<"command">>)
\* WebSearchTool.parameters (web.py:122-129)
WebSearchSchema ==
    SObject(<< <<"query", SString>>, <<"count", SIntRange(1, 10)>> >>, <<"query">>)

\* WebFetchTool.parameters (web.py:197-205)
WebFetchSchema ==
    SObject(<< <<"url", SString>>,
               <<"extractMode", [SString EXCEPT !.hasEnum = TRUE,
                                    !.enum = {JStr(<<"markdown">>), JStr(<<"text">>)}]>>,
               <<"maxChars", [SInteger EXCEPT !.hasMin = TRUE, !.minimum = 100]>> >>,
            <<"url">>)

SampleSchema ==
    SObject(<< <<"query", [SString EXCEPT !.hasMinLen = TRUE, !.minLength = 2]>>,
               <<"count", SIntRange(1, 10)>>,
               <<"mode", [SString EXCEPT !.hasEnum = TRUE,
                                         !.enum = {JStr(<<"f">>), JStr(<<"g">>)}]>>,
               <<"meta", SObject(<< <<"tag", SString>>,
                                    <<"flags", SArray(SString)>> >>, <<"tag">>)>> >>,
            <<"query", "count">>)

ToolTable ==
    [read_file  |-> [name |-> "read_file", parameters |-> PathSchema,
                     sig |-> {"path"}, body |-> "read_file"],
     write_file |-> [name |-> "write_file", parameters |-> WriteFileSchema,
                     sig |-> {"path", "content"}, body |-> "write_file"],
     edit_file  |-> [name |-> "edit_file", parameters |-> EditFileSchema,
                     sig |-> {"path", "old_text", "new_text"}, body |-> "edit_file"],
     list_dir   |-> [name |-> "list_dir", parameters |-> PathSchema,
                     sig |-> {"path"}, body |-> "list_dir"],
     exec       |-> [name |-> "exec", parameters |-> ShellSchema,
                     sig |-> {"command"}, body |-> "returns"],
     message    |-> [name |-> "message", parameters |-> MessageSchema,
                     sig |-> {"content"}, body |-> "message"],
     spawn      |-> [name |-> "spawn", parameters |-> SpawnSchema,
                     sig |-> {"task"}, body |-> "spawn"],
     web_search |-> [name |-> "web_search", parameters |-> WebSearchSchema,
                     sig |-> {"query"}, body |-> "returns"],
     web_fetch  |-> [name |-> "web_fetch", parameters |-> WebFetchSchema,
                     sig |-> {"url"}, body |-> "returns"],
     sample     |-> [name |-> "sample", parameters |-> SampleSchema,
                     sig |-> {"query", "count"}, body |-> "returns"],
     sample_v2  |-> [name |-> "sample", parameters |-> SObject(<<>>, <<>>),
                     sig |-> {}, body |-> "raises"],
     faulty     |-> [name |-> "faulty", parameters |-> SObject(<<>>, <<>>),
                     sig |-> {}, body |-> "raises"],
     badschema  |-> [name |-> "badschema", parameters |-> SArray(SString),
                     sig |-> {}, body |-> "returns"]]

ToolIds == DOMAIN ToolTable
ToolNames == {ToolTable[id].name : id \in ToolIds}

(***************************************************************************)
(* Tool.validate_params (base.py:86-101): a schema whose type is not       *)
(* "object" raises ValueError; otherwise the error list of _validate.      *)
(***************************************************************************)
validate_params(tool, params) ==
    LET schema == tool.parameters
        ty == IF schema.type = "" THEN "object" ELSE schema.type
    IN IF ty # "object"
       THEN [raised |-> TRUE, errors |-> <<>>]
       ELSE [raised |-> FALSE,
             errors |-> _validate(params, [schema EXCEPT !.type = "object"], <<>>)]

(***************************************************************************)
(* The bodies of the repository's tools.  `env` is what a body reads       *)
(* besides its arguments: the tool's allowed_dir, the file system, and the *)
(* conversation the message and spawn tools were last pointed at.          *)
(***************************************************************************)
Effect(op, path, data) == [op |-> op, path |-> path, data |-> data]
ReturnWith(text, eff) == [Return(text) EXCEPT !.eff = eff]
FsOps == {"stat", "read", "write", "list"}

\* `arg or default`, for an argument the signature defaults to None.
ArgOr(params, k, default) ==
    IF ObjHas(params, k) /\ ObjGet(params, k).s # <<>> THEN ObjGet(params, k).s ELSE default

\* ReadFileTool.execute (filesystem.py:100-123)
ReadFileBody(path, env) ==
    LET p == Resolve(path) IN
    IF ~PathAllowed(path, env.allowed_dir)
    THEN Return(<<"Error:">> \o PermissionErrorText(path, env.allowed_dir))
    ELSE IF ~Exists(env.fs, p)
    THEN ReturnWith(<<"Error:", "File not found:">> \o path, Effect("stat", p, <<>>))
    ELSE IF ~IsFile(env.fs, p)
    THEN ReturnWith(<<"Error:", "Not a file:">> \o path, Effect("stat", p, <<>>))
    ELSE ReturnWith(env.fs[p], Effect("read", p, <<>>))

\* WriteFileTool.execute (filesystem.py:166-186)
WriteFileBody(path, content, env) ==
    LET p == Resolve(path) IN
    IF ~PathAllowed(path, env.allowed_dir)
    THEN Return(<<"Error:">> \o PermissionErrorText(path, env.allowed_dir))
    ELSE IF ParentIsFile(env.fs, p) \/ IsDir(env.fs, p)
    THEN ReturnWith(<<"Error writing file:">> \o path, Effect("stat", p, <<>>))
    ELSE ReturnWith(<<"Successfully wrote">> \o path, Effect("write", p, content))

\* EditFileTool.execute (filesystem.py:236-276)
EditFileBody(path, old_text, new_text, env) ==
    LET p == Resolve(path) IN
    IF ~PathAllowed(path, env.allowed_dir)
    THEN Return(<<"Error:">> \o PermissionErrorText(path, env.allowed_dir))
    ELSE IF ~Exists(env.fs, p)
    THEN ReturnWith(<<"Error:", "File not found:">> \o path, Effect("stat", p, <<>>))
    ELSE IF ~IsFile(env.fs, p)
    THEN ReturnWith(<<"Error editing file:">> \o path, Effect("stat", p, <<>>))
    ELSE IF CountOcc(env.fs[p], old_text) = 0
    THEN ReturnWith(<<"Error:", "old_text not found in file.">>, Effect("read", p, <<>>))
    ELSE IF CountOcc(env.fs[p], old_text) > 1
    THEN ReturnWith(<<"Warning:", "old_text appears several times.">>,
                    Effect("read", p, <<>>))
    ELSE ReturnWith(<<"Successfully edited">> \o path,
                    Effect("write", p, ReplaceFirst(env.fs[p], old_text, new_text)))

\* ListDirTool.execute (filesystem.py:315-345)
ListDirBody(path, env) ==
    LET p == Resolve(path) IN
    IF ~PathAllowed(path, env.allowed_dir)
    THEN Return(<<"Error:">> \o PermissionErrorText(path, env.allowed_dir))
    ELSE IF ~Exists(env.fs, p)
    THEN ReturnWith(<<"Error:", "Directory not found:">> \o path, Effect("stat", p, <<>>))
    ELSE IF ~IsDir(env.fs, p)
    THEN ReturnWith(<<"Error:", "Not a directory:">> \o path, Effect("stat", p, <<>>))
    ELSE IF Children(env.fs, p) = {}
    THEN ReturnWith(<<"Directory">> \o path \o <<"is empty">>, Effect("list", p, <<>>))
    ELSE ReturnWith(Listing(env.fs, p), Effect("list", p, <<>>))

\* SpawnTool.execute (spawn.py:102-119) and SubagentManager.spawn
\* (subagent.py:102-143): the delegate is started for the conversation the
\* tool was last pointed at.
SpawnBody(task, env) ==
    ReturnWith(<<"Subagent", "started">>,
               Effect("spawn", <<env.spawn_ctx.channel, env.spawn_ctx.chat_id>>, task))

\* MessageTool.execute (message.py:114-159); the send callback is the bus's
\* publish_outbound (loop.py:169).
MessageBody(content, channel, chat_id) ==
    IF channel = <<>> \/ chat_id = <<>>
    THEN Return(<<"Error:", "No target channel/chat specified">>)
    ELSE ReturnWith(<<"Message sent to">> \o channel \o <<":">> \o chat_id,
                    Effect("publish", <<channel, chat_id>>, content))

\* Tool.execute (base.py:73-84), for the table's tools: the call binds the
\* bag's keys to the signature (a missing argument is a TypeError before the
\* body is entered), then the body returns a text or raises.
ToolExecute(tool, params, env) ==
    IF \E k \in tool.sig : ~ObjHas(params, k)
    THEN Raise(<<"TypeError", "missing argument">>)
    ELSE Invoked(
        CASE tool.body = "raises" -> Raise(<<"boom">>)
          [] tool.body = "read_file" -> ReadFileBody(ObjGet(params, "path").s, env)
          [] tool.body = "write_file" ->
                WriteFileBody(ObjGet(params, "path").s, ObjGet(params, "content").s, env)
          [] tool.body = "edit_file" ->
                EditFileBody(ObjGet(params, "path").s, ObjGet(params, "old_text").s,
                             ObjGet(params, "new_text").s, env)
          [] tool.body = "list_dir" -> ListDirBody(ObjGet(params, "path").s, env)
          [] tool.body = "spawn" -> SpawnBody(ObjGet(params, "task").s, env)
          [] tool.body = "message" ->
                MessageBody(ObjGet(params, "content").s,
                            ArgOr(params, "channel", env.message_ctx.channel),
                            ArgOr(params, "chat_id", env.message_ctx.chat_id))
          [] OTHER -> Return(<<"ok", tool.name>>))

\* The try block of ToolRegistry.execute (registry.py:112-117).
ExecuteTry(tool, name, params, env) ==
    LET v == validate_params(tool, params) IN
    IF v.raised THEN Raise(<<"Schema must be object type">>)
    ELSE IF v.errors # <<>> THEN Return(InvalidParamsText(name, v.errors))
    ELSE ToolExecute(tool, params, env)

\* The handler left out: what the try block raises reaches the caller.
ExceptNothing(name, r) == r

\* except Exception as e: return f"Error executing ..." (registry.py:118-120)
ExceptException(name, r) ==
    IF r.kind = "raise"
    THEN [r EXCEPT !.kind = "return", !.text = ErrorExecutingText(name, r.text)]
    ELSE r

(***************************************************************************)
(* ToolRegistry.execute (registry.py:91-120) on registry `reg`.            *)
(***************************************************************************)
RegistryExecute(reg, name, params, env) ==
    IF name \notin DOMAIN reg
    THEN Return(NotFoundText(name))
    ELSE ExceptException(name, ExecuteTry(ToolTable[reg[name]], name, params, env))

(***************************************************************************)
(* The registry's operations (registry.py:45-63) as dict updates.          *)
(***************************************************************************)
\* A registration that leaves a name to the tool that has it already.
registerKeepFirst(reg, id) ==
    [n \in DOMAIN reg \cup {ToolTable[id].name} |->
        IF n \in DOMAIN reg THEN reg[n] ELSE id]

\* self._tools[tool.name] = tool
register(reg, id) ==
    [n \in DOMAIN reg \cup {ToolTable[id].name} |->
        IF n = ToolTable[id].name THEN id ELSE reg[n]]

\* self._tools.pop(name, None)
unregister(reg, name) == [n \in DOMAIN reg \ {name} |-> reg[n]]

EmptyRegistry == [n \in {} |-> "web_search"]

\* ToolRegistry.get (registry.py:65-75): the tool, or None
NoTool == ""
get(reg, name) == IF name \in DOMAIN reg THEN reg[name] ELSE NoTool

\* ToolRegistry.has (registry.py:77-79)
has(reg, name) == name \in DOMAIN reg

\* Tool.to_schema (base.py:151-174); the description is left out.
to_schema(tool) ==
    [type |-> "function", name |-> tool.name, parameters |-> tool.parameters]

\* ToolRegistry.get_definitions (registry.py:81-89): one entry per value of
\* the dict, here as the multiset of the entries (entry -> how many).
get_definitions(reg) ==
    LET entries == {to_schema(ToolTable[reg[n]]) : n \in DOMAIN reg} IN
    [e \in entries |->
        Cardinality({n \in DOMAIN reg : to_schema(ToolTable[reg[n]]) = e})]

\* No tool registered under any name yet.  `replaced` tells that the tool
\* took the name over from another tool registered under it.
NoLatest == [n \in ToolNames |-> [tool |-> NoTool, replaced |-> FALSE]]

(***************************************************************************)
(* Argument bags, as the inference capability may send them: the fields    *)
(* of a bag are drawn one at a time from valid and invalid values, at the  *)
(* top level and inside the nested object and array.                       *)
(***************************************************************************)
JAbsent == [t |-> "absent", n |-> 0, s |-> <<>>, kids |-> <<>>]
Present(p) == p[2].t # "absent"
Bag(q, c, mo, me) ==
    JObj(SelectSeq(<< <<"query", q>>, <<"count", c>>, <<"mode", mo>>, <<"meta", me>> >>,
                   Present))

QueryVals == {JAbsent, JStr(<<"q">>), JStr(<<"q", "q">>), JInt(1)}
CountVals == {JAbsent, JInt(0), JInt(5), JInt(11), JBool(TRUE), JFloat(3),
              JStr(<<"5">>)}
ModeVals == {JAbsent, JStr(<<"f">>), JStr(<<"x">>), JInt(1)}
MetaVals ==
    {JAbsent,
     JObj(<<>>),
     JObj(<< <<"tag", JStr(<<"t">>)>> >>),
     JObj(<< <<"tag", JInt(1)>> >>),
     JObj(<< <<"tag", JStr(<<"t">>)>>, <<"flags", JArr(<<JStr(<<"a">>)>>)>> >>),
     JObj(<< <<"tag", JStr(<<"t">>)>>, <<"flags", JArr(<<JStr(<<"a">>), JBool(TRUE)>>)>> >>),
     JStr(<<"m">>)}

GoodQ == JStr(<<"q", "q">>)
GoodC == JInt(5)
ParamBags ==
    {Bag(q, GoodC, JAbsent, JAbsent) : q \in QueryVals}
    \cup {Bag(GoodQ, c, JAbsent, JAbsent) : c \in CountVals}
    \cup {Bag(GoodQ, GoodC, mo, JAbsent) : mo \in ModeVals}
    \cup {Bag(GoodQ, GoodC, JAbsent, me) : me \in MetaVals}
    \cup {JArr(<<>>), JNull, JStr(<<"raw">>)}

\* The tools the registry is exercised with, and an environment for them.
RegistryToolIds == {"web_search", "sample", "sample_v2", "faulty", "badschema"}
ExecNames == {ToolTable[id].name : id \in RegistryToolIds} \cup {"nosuch"}
Ctx(channel, chat_id) == [channel |-> channel, chat_id |-> chat_id]
\* SpawnTool.__init__ (spawn.py:58-59)
DefaultCtx == Ctx(<<"c", "l", "i">>, <<"d", "i", "r", "e", "c", "t">>)
Env(allowed_dir, fs, mctx, sctx) ==
    [allowed_dir |-> allowed_dir, fs |-> fs, message_ctx |-> mctx, spawn_ctx |-> sctx]
\* MessageTool.__init__ (message.py:48-65)
NoCtx == Ctx(<<>>, <<>>)
RegistryEnv == Env(NoDir, [x \in {} |-> <<>>], NoCtx, DefaultCtx)

NoExec ==
    [name |-> "", tool |-> "", params |-> JNull, kind |-> "none", text |-> <<>>,
     invoked |-> FALSE]

(***************************************************************************)
(* The session store (session/manager.py).  Keys, channels and chat ids    *)
(* are sequences of characters.  A datetime is the clock's reading; an     *)
(* ISO string is a datetime formatted.                                     *)
(***************************************************************************)
isoformat(dt) == <<"iso", dt>>
fromisoformat(str) == str[2]

\* One turn as Session.add_message builds it (manager.py:72-77).
Turn(role, content, now, tools_used) ==
    [role |-> role, content |-> content, timestamp |-> isoformat(now),
     tools_used |-> tools_used]

\* Session(key=key): both timestamps default to datetime.now()
\* (manager.py:57-61).
NewSession(key, now) ==
    [key |-> key, messages |-> <<>>, created_at |-> now, updated_at |-> now]

\* Session.add_message (manager.py:63-79)
add_message(session, role, content, now, tools_used) ==
    [session EXCEPT !.messages = Append(@, Turn(role, content, now, tools_used)),
                    !.updated_at = now]

\* Session.clear (manager.py:100-108)
clear(session, now) == [session EXCEPT !.messages = <<>>, !.updated_at = now]

\* safe_filename (helpers.py:90-106): each unsafe character becomes "_",
\* then the name is stripped of surrounding blanks.
UnsafeChars == {"<", ">", ":", "\"", "/", "\\", "|", "?", "*"}
RECURSIVE Strip(_)
Strip(cs) ==
    IF cs # <<>> /\ Head(cs) = " " THEN Strip(Tail(cs))
    ELSE IF cs # <<>> /\ cs[Len(cs)] = " " THEN Strip(SubSeq(cs, 1, Len(cs) - 1))
    ELSE cs
safe_filename(name) ==
    Strip([i \in 1..Len(name) |-> IF name[i] \in UnsafeChars THEN "_" ELSE name[i]])

\* SessionManager._get_session_path (manager.py:139-153)
_get_session_path(key) ==
    safe_filename([i \in 1..Len(key) |-> IF key[i] = ":" THEN "_" ELSE key[i]])
        \o <<".jsonl">>

\* The records of a session file: the metadata record, then one per turn
\* (manager.py:245-257).
NoTurn == [role |-> "", content |-> <<>>, timestamp |-> <<"iso", 0>>, tools_used |-> <<>>]
MetaRecord(session) ==
    [type |-> "metadata", created_at |-> isoformat(session.created_at),
     updated_at |-> isoformat(session.updated_at), turn |-> NoTurn]
TurnRecord(turn) ==
    [type |-> "", created_at |-> <<"iso", 0>>, updated_at |-> <<"iso", 0>>, turn |-> turn]
FileOf(session) ==
    <<MetaRecord(session)>>
        \o [i \in 1..Len(session.messages) |-> TurnRecord(session.messages[i])]

\* SessionManager.save (manager.py:233-260): the file is rewritten whole and
\* the cache entry set.
PutKey(f, k, v) == [x \in DOMAIN f \cup {k} |-> IF x = k THEN v ELSE f[x]]
save_disk(d, session) == PutKey(d, _get_session_path(session.key), FileOf(session))
save_cache(c, session) == PutKey(c, session.key, session)

\* SessionManager._load (manager.py:182-231) of an existing file: the turns
\* are the non-metadata records in order, created_at comes from the
\* metadata record, and Session(...) is built without updated_at, which
\* therefore defaults to datetime.now().
IsMeta(rec) == rec.type = "metadata"
IsTurnRec(rec) == rec.type # "metadata"
LoadedCreatedAt(file, now) ==
    LET metas == SelectSeq(file, IsMeta) IN
    IF metas = <<>> THEN now ELSE fromisoformat(metas[Len(metas)].created_at)
LoadedUpdatedAt(file, now) == now
_load(d, key, now) ==
    LET file == d[_get_session_path(key)]
        recs == SelectSeq(file, IsTurnRec)
    IN [key |-> key,
        messages |-> [i \in 1..Len(recs) |-> recs[i].turn],
        created_at |-> LoadedCreatedAt(file, now),
        updated_at |-> LoadedUpdatedAt(file, now)]

\* SessionManager.get_or_create (manager.py:155-180): the session the
\* manager hands out for `key`.
get_or_create(c, d, key, now) ==
    IF key \in DOMAIN c THEN c[key]
    ELSE IF _get_session_path(key) \in DOMAIN d THEN _load(d, key, now)
    ELSE NewSession(key, now)

EmptyMap == [x \in {} |-> 0]
NoSave == [saved |-> FALSE, reloaded |-> FALSE, session |-> NewSession(<<>>, 0)]

StoreIdle ==
    /\ cache = EmptyMap
    /\ disk = EmptyMap
    /\ clock = 0
    /\ lastSave = NoSave

(***************************************************************************)
(* Messages on the bus (bus/events.py) and turns of an inference           *)
(* conversation (agent/context.py).                                        *)
(***************************************************************************)
InboundMessage(channel, sender_id, chat_id, content) ==
    [channel |-> channel, sender_id |-> sender_id, chat_id |-> chat_id,
     content |-> content]
OutboundMessage(channel, chat_id, content) ==
    [channel |-> channel, chat_id |-> chat_id, content |-> content]
\* InboundMessage.session_key (events.py)
session_key(msg) == msg.channel \o <<":">> \o msg.chat_id

\* Python's None where a text is expected.
None == <<"<None>">>
\* content or ""
OrEmpty(content) == IF content = None THEN <<>> ELSE content

\* ToolCallRequest and LLMResponse (providers/base.py)
ToolCallRequest(id, name, arguments) == [id |-> id, name |-> name, arguments |-> arguments]
LLMResponse(content, tool_calls, reasoning_content) ==
    [content |-> content, tool_calls |-> tool_calls,
     reasoning_content |-> reasoning_content]
has_tool_calls(response) == Len(response.tool_calls) > 0

\* One turn of the list sent to the inference capability.
LLMTurn(role, content) ==
    [role |-> role, content |-> content, tool_call_id |-> 0, name |-> "",
     tool_calls |-> <<>>, reasoning_content |-> <<>>]
\* ContextBuilder.add_assistant_message (context.py:312-350)
add_assistant_message(messages, content, tool_calls, reasoning_content) ==
    Append(messages, [LLMTurn("assistant", OrEmpty(content)) EXCEPT
                          !.tool_calls = tool_calls,
                          !.reasoning_content = reasoning_content])
\* ContextBuilder.add_tool_result (context.py:282-310)
add_tool_result(messages, tool_call_id, tool_name, result) ==
    Append(messages, [LLMTurn("tool", result) EXCEPT
                          !.tool_call_id = tool_call_id, !.name = tool_name])
\* The steering turn (loop.py:352, 474)
ReflectTurn == LLMTurn("user", <<"Reflect on the results and decide next steps.">>)

\* Session.get_history (manager.py:81-98)
HistoryMax == 50
get_history_whole(session) ==
    [i \in 1..Len(session.messages) |->
        LLMTurn(session.messages[i].role, session.messages[i].content)]
get_history(session) ==
    LET n == Len(session.messages)
        recent == IF n > HistoryMax THEN SubSeq(session.messages, n - HistoryMax + 1, n)
                  ELSE session.messages
    IN [i \in 1..Len(recent) |-> LLMTurn(recent[i].role, recent[i].content)]

\* ContextBuilder.build_system_prompt and build_messages (context.py:71-124,
\* 197-244): the identity, the durable memory, the current conversation.
build_system_prompt(memory) ==
    <<"identity">> \o (IF memory # <<>> THEN <<"## Long-term Memory">> \o memory ELSE <<>>)
build_messages(history, current_message, channel, chat_id, memory) ==
    <<LLMTurn("system",
              build_system_prompt(memory)
                  \o (IF channel # <<>> /\ chat_id # <<>>
                      THEN <<"Channel:">> \o channel \o <<"Chat ID:">> \o chat_id
                      ELSE <<>>))>>
        \o history
        \o <<LLMTurn("user", current_message)>>

(***************************************************************************)
(* The locals of one pass of the run loop (AgentLoop.run and               *)
(* _process_message / _process_system_message), with its position `pc`:    *)
(*   "idle"        awaiting bus.consume_inbound (loop.py:199)              *)
(*   "consolidate" awaiting the summarizing provider.chat (loop.py:551)    *)
(*   "infer"       awaiting the ReAct provider.chat (loop.py:315, 443)     *)
(*   "tools"       awaiting tools.execute of Head(pending) (loop.py:345)   *)
(* The fields after `tools_used` are not locals of the code: they record   *)
(* what the pass did, for the properties to speak about.                   *)
(***************************************************************************)
NoMsg == InboundMessage(<<>>, "", <<>>, <<>>)
NoOut == OutboundMessage(<<>>, <<>>, <<>>)
\* run.pc is "idle" while the run loop awaits consume_inbound and
\* "returned" once AgentLoop.run has returned; run._running is the stop
\* flag (loop.py:192), and run.stopAt what had been done when stop was
\* called: the messages consumed and the inference calls of the pass.
NoStop == [consumed |-> 0, calls |-> 0, pc |-> ""]
NewRun ==
    [pc |-> "idle", kind |-> "", msg |-> NoMsg, key |-> <<>>,
     channel |-> <<>>, chat_id |-> <<>>,
     archive_all |-> FALSE, keep_count |-> 0, current_memory |-> <<>>,
     iteration |-> 0, messages |-> <<>>, pending |-> <<>>, tools_used |-> <<>>,
     calls |-> 0, reactCalls |-> 0, consCalls |-> 0, cons |-> "",
     before |-> <<>>, retired |-> <<>>,
     requested |-> <<>>, executed |-> <<>>,
     first |-> LLMResponse(None, <<>>, <<>>),
     outcome |-> "", reply |-> NoOut, outAt |-> 0, fsLog |-> <<>>,
     failedAt |-> 0, got |-> <<>>,
     _running |-> TRUE, stopAt |-> NoStop,
     via |-> "loop", nth |-> 0, conversation |-> <<>>,
     update |-> <<>>, wrote |-> FALSE]

\* No process_direct call is in progress ("off"): the place of the pass that
\* AgentLoop.process_direct (loop.py:579-612) starts, beside the run loop's.
NoDirect == [NewRun EXCEPT !.pc = "off", !.via = "direct"]

\* CronService.__init__ (service.py:86-102): no store loaded, no timer task,
\* not running.  `tasks` are the tick tasks _arm_timer has created, `now`
\* is what _now_ms() returns, `saved` the jobs as jobs.json holds them.
CronIdle ==
    [_running |-> FALSE, jobs |-> <<>>, saved |-> <<>>, _timer_task |-> 0,
     tasks |-> <<>>, now |-> 0, created |-> 0]

\* One delegate (SubagentManager._run_subagent), with its position:
\*   "start"    scheduled by create_task, not yet run (subagent.py:134)
\*   "infer"    awaiting provider.chat (subagent.py:209)
\*   "tools"    awaiting tools.execute of Head(pending) (subagent.py:239)
\*   "finished" returned; the done callback is scheduled (subagent.py:140)
\*   "gone"     the done callback has removed it from _running_tasks
\* A spawn that runs the delegate up to its first inference call.
NewSubagentStarted(task, origin, preCount) ==
    [pc |-> "infer", task |-> task, origin |-> origin,
     iteration |-> 1, messages |-> <<>>, pending |-> <<>>,
     requested |-> <<>>, executed |-> <<>>,
     raised |-> FALSE, announced |-> <<>>,
     preCount |-> preCount, postCount |-> 0, disturbed |-> FALSE, got |-> <<>>]
NewSubagent(task, origin, preCount) ==
    [pc |-> "start", task |-> task, origin |-> origin,
     iteration |-> 0, messages |-> <<>>, pending |-> <<>>,
     requested |-> <<>>, executed |-> <<>>,
     raised |-> FALSE, announced |-> <<>>,
     preCount |-> preCount, postCount |-> 0, disturbed |-> FALSE, got |-> <<>>]

\* MessageBus.__init__ (queue.py:51-57) and ChannelManager.__init__:
\* nobody subscribed, no channel enabled, the dispatcher not started.
\*   subscribers  MessageBus._outbound_subscribers: channel -> callbacks
\*   channels     ChannelManager.channels: the names of the enabled channels
\*   kind         which loop pulls the outbound queue: "bus" for
\*                MessageBus.dispatch_outbound, "manager" for
\*                ChannelManager._dispatch_outbound
\*   pc           "get" awaiting outbound.get(), "call" awaiting a callback
\*                or a channel's send
\*   msg, idx     the item pulled, and the position of the callback awaited
\*   live         the list iterated is the dict's own list, not the default []
\*   log          every invocation so far: the item, the consumer, what came
\*                of it ("pending", "returned", "raised")
\*   pulled       every item pulled so far, with the item's consumers then
BusIdle ==
    [subscribers |-> [c \in {} |-> <<>>], channels |-> {}, kind |-> "",
     pc |-> "off", msg |-> NoOut, idx |-> 0, live |-> FALSE, log |-> <<>>,
     pulled |-> <<>>]

NoCfg ==
    [memory_window |-> 0, allowed_dir |-> NoDir, userTexts |-> {}, maxUser |-> 0,
     toolLists |-> {}, subLists |-> {}, maxSpawns |-> 0, summaries |-> {},
     faults |-> FALSE, chats |-> {}, errors |-> {}, answers |-> {}, payloads |-> {}]

AgentIdle ==
    /\ inbound = <<>>
    /\ outbound = <<>>
    /\ published = 0
    /\ memory_file = <<>>
    /\ history_file = <<>>
    /\ files = EmptyMap
    /\ cfg = NoCfg
    /\ run = NewRun
    /\ message_ctx = NoCtx
    /\ spawn_ctx = DefaultCtx
    /\ subagents = <<>>
    /\ running_tasks = {}
    /\ other = NoDirect
    /\ cron = CronIdle

(***************************************************************************)
(* The registry on its own: any tool is registered or unregistered, and    *)
(* any name is executed with any bag.                                      *)
(***************************************************************************)
InitRegistry ==
    /\ tools = EmptyRegistry
    /\ lastExec = NoExec
    /\ latest = NoLatest
    /\ StoreIdle
    /\ AgentIdle
    /\ bus = BusIdle

Register(id) ==
    /\ tools' = register(tools, id)
    /\ latest' = [latest EXCEPT ![ToolTable[id].name] =
                      [tool |-> id,
                       replaced |-> @.tool \notin {NoTool, id}
                                    \/ (@.tool = id /\ @.replaced)]]
    /\ UNCHANGED <<lastExec, storeVars, agentVars>>

Unregister(name) ==
    /\ tools' = unregister(tools, name)
    /\ latest' = [n \in DOMAIN latest |->
                      IF n = name THEN [tool |-> NoTool, replaced |-> FALSE]
                      ELSE latest[n]]
    /\ UNCHANGED <<lastExec, storeVars, agentVars>>

Execute(name, params) ==
    LET r == RegistryExecute(tools, name, params, RegistryEnv) IN
    /\ lastExec' = [name |-> name,
                    tool |-> IF name \in DOMAIN tools THEN tools[name] ELSE "",
                    params |-> params, kind |-> r.kind, text |-> r.text,
                    invoked |-> r.invoked]
    /\ UNCHANGED <<tools, latest, storeVars, agentVars>>

NextRegistry ==
    \/ \E id \in RegistryToolIds : Register(id)
    \/ \E name \in ExecNames : Unregister(name)
    \/ \E name \in ExecNames, params \in ParamBags : Execute(name, params)

SpecRegistry == InitRegistry /\ [][NextRegistry]_vars

(***************************************************************************)
(* What the schema asks of a value, read as JSON Schema reads it: a JSON   *)
(* boolean is no integer and no number, and equals no number.              *)
(***************************************************************************)
JsonIsType(val, t) ==
    CASE t = "string"  -> val.t = "string"
      [] t = "integer" -> val.t = "integer" \/ (val.t = "float" /\ val.n % 2 = 0)
      [] t = "number"  -> val.t \in {"integer", "float"}
      [] t = "boolean" -> val.t = "boolean"
      [] t = "array"   -> val.t = "array"
      [] t = "object"  -> val.t = "object"
      [] OTHER         -> TRUE

JsonEq(a, b) ==
    IF a.t \in {"integer", "float"} /\ b.t \in {"integer", "float"}
    THEN PyNum(a) = PyNum(b) ELSE a = b

RECURSIVE Conforms(_, _)
Conforms(val, schema) ==
    /\ JsonIsType(val, schema.type)
    /\ schema.hasEnum => \E e \in schema.enum : JsonEq(val, e)
    /\ schema.type \in {"integer", "number"} =>
          /\ schema.hasMin => PyNum(val) >= 2 * schema.minimum
          /\ schema.hasMax => PyNum(val) <= 2 * schema.maximum
    /\ schema.type = "string" =>
          /\ schema.hasMinLen => Len(val.s) >= schema.minLength
          /\ schema.hasMaxLen => Len(val.s) <= schema.maxLength
    /\ schema.type = "object" =>
          /\ \A i \in 1..Len(schema.required) : ObjHas(val, schema.required[i])
          /\ \A i \in 1..Len(val.kids) :
                PropHas(schema, val.kids[i][1]) =>
                    Conforms(val.kids[i][2], PropGet(schema, val.kids[i][1]))
    /\ (schema.type = "array" /\ schema.items # <<>>) =>
          \A i \in 1..Len(val.kids) : Conforms(val.kids[i][2], schema.items[1])

\* The last call named a registered tool with an object schema.
ExecOnTool == lastExec.kind # "none" /\ lastExec.tool # ""
ExecSchema == ToolTable[lastExec.tool].parameters
IsValidationError(text) ==
    Len(text) >= 2 /\ text[1] = "Error:" /\ text[2] = "Invalid parameters for tool"

(***************************************************************************)
(* C1: ToolRegistry.execute never raises to its caller: whatever the name  *)
(* (registered or not), the bag and the tool's behaviour (it returns, its  *)
(* validation raises, its body raises), the call returns a text.           *)
(***************************************************************************)
C1_ExecuteNeverRaises ==
    lastExec.kind # "none" => lastExec.kind = "return" /\ lastExec.text # <<>>

\* A tool whose body raised was executed, and the caller got a text.
C1_Witness ==
    /\ lastExec.tool = "faulty" /\ lastExec.invoked
    /\ lastExec.kind = "return" /\ BeginsWith(lastExec.text, "Error executing")

(***************************************************************************)
(* C2: for every call whose bag fails the tool's schema (a wrong type, a   *)
(* missing required field, an enum, range or length violation, at any      *)
(* depth) the tool's execute body is not invoked and the caller gets a     *)
(* textual validation error.                                               *)
(***************************************************************************)
C2_Claim ==
    (ExecOnTool /\ ExecSchema.type = "object"
        /\ ~Conforms(lastExec.params, ExecSchema))
    => (~lastExec.invoked /\ IsValidationError(lastExec.text))

(***************************************************************************)
(* The session store on its own: sessions are handed out, appended to,     *)
(* cleared and saved; time passes; the process restarts with a fresh       *)
(* manager (an empty cache) and reads its sessions back from disk.         *)
(***************************************************************************)
MaxStoreTurns == 2
MaxClock == 2
StoreKeys == {<<"a", ":", "1">>, <<"a", "_", "1">>}
StoreRoles == {"user", "assistant"}

InitStore ==
    /\ StoreIdle
    /\ tools = EmptyRegistry
    /\ lastExec = NoExec
    /\ latest = NoLatest
    /\ AgentIdle
    /\ bus = BusIdle

StoreGet(key) ==
    /\ key \notin DOMAIN cache
    /\ cache' = PutKey(cache, key, get_or_create(cache, disk, key, clock))
    /\ lastSave' = IF lastSave.saved /\ lastSave.session.key = key
                      /\ _get_session_path(key) \in DOMAIN disk
                   THEN [lastSave EXCEPT !.reloaded = TRUE]
                   ELSE lastSave
    /\ UNCHANGED <<disk, clock, registryVars, agentVars>>

\* A change to the session the latest save wrote ends that save's round trip.
Forget(key) ==
    IF lastSave.saved /\ lastSave.session.key = key THEN NoSave ELSE lastSave

StoreAdd(key, role) ==
    /\ key \in DOMAIN cache
    /\ Len(cache[key].messages) < MaxStoreTurns
    /\ cache' = [cache EXCEPT ![key] = add_message(@, role, <<"hi">>, clock, <<>>)]
    /\ lastSave' = Forget(key)
    /\ UNCHANGED <<disk, clock, registryVars, agentVars>>

StoreClear(key) ==
    /\ key \in DOMAIN cache
    /\ cache' = [cache EXCEPT ![key] = clear(@, clock)]
    /\ lastSave' = Forget(key)
    /\ UNCHANGED <<disk, clock, registryVars, agentVars>>

StoreSave(key) ==
    /\ key \in DOMAIN cache
    /\ disk' = save_disk(disk, cache[key])
    /\ cache' = save_cache(cache, cache[key])
    /\ lastSave' = [saved |-> TRUE, reloaded |-> FALSE, session |-> cache[key]]
    /\ UNCHANGED <<clock, registryVars, agentVars>>

Tick ==
    /\ clock < MaxClock
    /\ clock' = clock + 1
    /\ UNCHANGED <<cache, disk, lastSave, registryVars, agentVars>>

Restart ==
    /\ cache # EmptyMap
    /\ cache' = EmptyMap
    /\ UNCHANGED <<disk, clock, lastSave, registryVars, agentVars>>

NextStore ==
    \/ \E key \in StoreKeys : StoreGet(key)
    \/ \E key \in StoreKeys, role \in StoreRoles : StoreAdd(key, role)
    \/ \E key \in StoreKeys : StoreClear(key)
    \/ \E key \in StoreKeys : StoreSave(key)
    \/ Tick
    \/ Restart

SpecStore == InitStore /\ [][NextStore]_vars

\* The latest save's session has been read back from disk by a fresh manager.
ReadBack == lastSave.saved /\ lastSave.reloaded /\ lastSave.session.key \in DOMAIN cache

(***************************************************************************)
(* C9: round trip of the session store: a session saved and then loaded    *)
(* from disk by a fresh manager has the same ordered turn list, the same   *)
(* created timestamp and the same updated timestamp as the saved session.  *)
(***************************************************************************)
C9_Claim ==
    ReadBack =>
        LET loaded == cache[lastSave.session.key] IN
        /\ loaded.messages = lastSave.session.messages
        /\ loaded.created_at = lastSave.session.created_at
        /\ loaded.updated_at = lastSave.session.updated_at

(***************************************************************************)
(* The orchestration loop (agent/loop.py).  One action is one stretch of   *)
(* the run loop between two awaits that suspend it.                        *)
(***************************************************************************)
\* AgentLoop.__init__: max_iterations (loop.py:78), memory_window (loop.py:79)
max_iterations == 2
DefaultMemoryWindow == 50
\* the delegate's own ceiling (subagent.py:201)
SubagentMaxIterations == 15

Min(a, b) == IF a < b THEN a ELSE b
Max(a, b) == IF a > b THEN a ELSE b
\* keep_count = min(10, max(2, self.memory_window // 2)) (loop.py:518)
KeepCount(window) == Min(10, Max(2, window \div 2))
\* session.messages[:-keep_count] (loop.py:519)
Retire(messages, keep) ==
    IF keep = 0 THEN <<>> ELSE SubSeq(messages, 1, Len(messages) - keep)
\* A truncation that keeps the whole session.
RetainAll(messages, keep) == messages
\* session.messages[-keep_count:] if keep_count else [] (loop.py:573)
Retain(messages, keep) ==
    IF keep = 0 THEN <<>>
    ELSE SubSeq(messages, Max(1, Len(messages) - keep + 1), Len(messages))
\* The lines rendered for the summarizer (loop.py:524-530): one per retired
\* turn that has content, with its time, role and tools.
RenderLine(m) ==
    [timestamp |-> m.timestamp, role |-> m.role, tools |-> m.tools_used,
     content |-> m.content]
HasContent(m) == m.content # <<>>
Render(old) ==
    LET kept == SelectSeq(old, HasContent) IN [i \in 1..Len(kept) |-> RenderLine(kept[i])]
\* The early return the code takes instead of `if not old_messages`.
RetireNever(old) == FALSE
\* if not old_messages: return (loop.py:520-521)
RetireEmpty(old) == old = <<>>

\* while iteration < self.max_iterations (loop.py:311, 440), and a guard
\* that lets one more iteration in.
LoopGuardInclusive(iteration) == iteration <= max_iterations
LoopGuard(iteration) == iteration < max_iterations

\* for tool_call in response.tool_calls (loop.py:341, 466; subagent.py:236):
\* the call the loop executes next; and the last one instead.
LastCall(pending) == pending[Len(pending)]
NextCall(pending) == Head(pending)

\* msg.content.strip().lower() (loop.py:264)
Lower(tok) ==
    CASE tok = "/NEW" -> "/new"
      [] tok = "/Help" -> "/help"
      [] OTHER -> tok
\* The text compared as it was written.
CmdAsWritten(content) == content
Cmd(content) == LET c == Strip(content) IN [i \in 1..Len(c) |-> Lower(c[i])]

SystemChannel == <<"s", "y", "s", "t", "e", "m">>
UserChannel == <<"t", "g">>
UserChat == <<"7">>
OtherChat == <<"8">>
\* A conversation id with the separator in it.
ColonChat == <<"a", ":", "b">>

\* The texts the loop itself writes.
NewSessionText == <<"New session started. Memory consolidated.">>
HelpText == <<"nanobot commands:", "/new", "/help">>
ReachedText == <<"Reached max_iterations iterations without completion.">>
NoResponseText == <<"I've completed processing but have no response to give.">>
BackgroundDoneText == <<"Background task completed.">>
ApologyText(e) == <<"Sorry, I encountered an error:">> \o e

\* A reply that is the fallback whatever the inference capability said.
ReplyAlwaysFallback(kind, final_content, iteration) == NoResponseText
\* loop.py:359-363 and loop.py:479-480
ReplyContent(kind, final_content, iteration) ==
    IF final_content # None THEN final_content
    ELSE IF kind = "system" THEN BackgroundDoneText
    ELSE IF iteration >= max_iterations THEN ReachedText
    ELSE NoResponseText

\* A split on the last separator instead of the first.
OriginLastColon(chat_id) ==
    LET colons == {i \in 1..Len(chat_id) : chat_id[i] = ":"} IN
    IF colons = {} THEN Ctx(<<"c", "l", "i">>, chat_id)
    ELSE LET i == CHOOSE c \in colons : \A d \in colons : c >= d
         IN Ctx(SubSeq(chat_id, 1, i - 1), SubSeq(chat_id, i + 1, Len(chat_id)))
\* msg.chat_id.split(":", 1) (loop.py:402-409)
Origin(chat_id) ==
    LET colons == {i \in 1..Len(chat_id) : chat_id[i] = ":"} IN
    IF colons = {} THEN Ctx(<<"c", "l", "i">>, chat_id)
    ELSE LET i == CHOOSE c \in colons : \A d \in colons : c <= d
         IN Ctx(SubSeq(chat_id, 1, i - 1), SubSeq(chat_id, i + 1, Len(chat_id)))

\* What the loop never changes.
fixedVars == <<tools, lastExec, latest, bus, clock, lastSave, cfg, other, cron>>

\* SessionManager.save of the pass's session / the session left in the cache.
SaveSessionInMemoryOnly(s) == cache' = PutKey(cache, s.key, s) /\ disk' = disk
SaveSession(s) == cache' = PutKey(cache, s.key, s) /\ disk' = save_disk(disk, s)
KeepSession(s) == cache' = PutKey(cache, s.key, s) /\ disk' = disk

\* while self._running (loop.py:195), reached when a pass has ended.
AfterPass(r) ==
    IF r.via = "direct" THEN "off" ELSE IF r._running THEN "idle" ELSE "returned"

\* The pass returns `out`; the run loop publishes it (loop.py:206-208),
\* process_direct returns its text to its caller (loop.py:612).
Reply(r, queue, out) ==
    /\ outbound' = IF r.via = "direct" THEN queue ELSE Append(queue, out)
    /\ run' = [r EXCEPT !.pc = AfterPass(r), !.outcome = "replied", !.reply = out,
                        !.messages = <<>>, !.pending = <<>>]

\* The pass raises; the run loop apologises (loop.py:209-216), and
\* process_direct lets the exception through to its caller.
TopLevelFault(r, queue, e) ==
    LET out == OutboundMessage(r.msg.channel, r.msg.chat_id, ApologyText(e)) IN
    /\ outbound' = IF r.via = "direct" THEN queue ELSE Append(queue, out)
    /\ run' = [r EXCEPT !.pc = AfterPass(r), !.outcome = "apology", !.reply = out,
                        !.messages = <<>>, !.pending = <<>>]

\* iteration += 1; response = await self.provider.chat(...) (loop.py:312-319)
StartInfer(r, queue) ==
    /\ run' = [r EXCEPT !.pc = "infer", !.iteration = @ + 1, !.calls = @ + 1,
                        !.reactCalls = @ + 1]
    /\ outbound' = queue

\* After the loop (loop.py:359-381, 479-492): the two turns are appended to
\* the session, the session is saved, the reply returned.
Finalize(r, s, queue, final_content) ==
    LET content == ReplyContent(r.kind, final_content, r.iteration)
        user == IF r.kind = "system"
                THEN <<"[System:", r.msg.sender_id, "]">> \o r.msg.content
                ELSE r.msg.content
        s1 == add_message(s, "user", user, clock, <<>>)
        s2 == add_message(s1, "assistant", content, clock,
                          IF r.kind = "system" THEN <<>> ELSE r.tools_used)
    IN /\ SaveSession(s2)
       /\ Reply(r, queue, OutboundMessage(r.channel, r.chat_id, content))

\* The head of the while loop (loop.py:311, 440).
LoopOrFinalize(r, s, queue) ==
    IF LoopGuard(r.iteration)
    THEN StartInfer(r, queue) /\ KeepSession(s)
    ELSE Finalize(r, s, queue, None)

\* A loop that records the user's turn before its first inference call.
StartReactRecordingFirst(r, s, memory) ==
    /\ message_ctx' = Ctx(r.channel, r.chat_id)
    /\ spawn_ctx' = Ctx(r.channel, r.chat_id)
    /\ LoopOrFinalize(
          [r EXCEPT !.messages = build_messages(get_history(s), r.msg.content,
                                                r.channel, r.chat_id, memory),
                    !.iteration = 0],
          add_message(s, "user", r.msg.content, clock, <<>>), outbound)

\* loop.py:283-311 and 416-440: the tools are pointed at the conversation,
\* the turn list is built, the loop entered.
StartReact(r, s, memory) ==
    /\ message_ctx' = Ctx(r.channel, r.chat_id)
    /\ spawn_ctx' = Ctx(r.channel, r.chat_id)
    /\ LoopOrFinalize(
          [r EXCEPT !.messages = build_messages(get_history(s), r.msg.content,
                                                r.channel, r.chat_id, memory),
                    !.iteration = 0],
          s, outbound)

\* _consolidate_memory up to its await (loop.py:512-557): the retirement set
\* is chosen and rendered, the blob read, the summarizer called.
StartConsolidate(r, s, archive_all) ==
    LET keep == IF archive_all THEN 0 ELSE KeepCount(cfg.memory_window) IN
    /\ run' = [r EXCEPT !.pc = "consolidate", !.archive_all = archive_all,
                        !.keep_count = keep, !.current_memory = memory_file,
                        !.calls = @ + 1, !.consCalls = @ + 1, !.cons = "started",
                        !.retired = IF archive_all THEN s.messages
                                    ELSE Retire(s.messages, keep),
                        !.conversation = Render(IF archive_all THEN s.messages
                                                ELSE Retire(s.messages, keep))]
    /\ KeepSession(s)
    /\ UNCHANGED <<outbound, message_ctx, spawn_ctx>>

\* A channel publishes a user's message on the inbound queue
\* (queue.py:59-67).
Publish(chat_id, content) ==
    /\ published < cfg.maxUser
    /\ inbound' = Append(inbound, InboundMessage(UserChannel, "user", chat_id, content))
    /\ published' = published + 1
    /\ UNCHANGED <<outbound, memory_file, history_file, files, run, message_ctx,
                   spawn_ctx, subagents, running_tasks, cache, disk, fixedVars>>

\* The pass that begins with the message at the head of the inbound queue.
SessionOf(r) == get_or_create(cache, disk, r.key, clock)
PassOf(msg) ==
    LET r == [NewRun EXCEPT
                 !.kind = IF msg.channel = SystemChannel THEN "system" ELSE "user",
                 !.msg = msg,
                 !.key = IF msg.channel = SystemChannel
                         THEN Origin(msg.chat_id).channel \o <<":">>
                                  \o Origin(msg.chat_id).chat_id
                         ELSE session_key(msg),
                 !.channel = IF msg.channel = SystemChannel
                             THEN Origin(msg.chat_id).channel ELSE msg.channel,
                 !.chat_id = IF msg.channel = SystemChannel
                             THEN Origin(msg.chat_id).chat_id ELSE msg.chat_id,
                 !._running = run._running,
                 !.stopAt = run.stopAt]
    IN [r EXCEPT !.before = SessionOf(r).messages, !.outAt = Len(outbound)]
Consumable == run.pc = "idle" /\ inbound # <<>>

\* memory.read_long_term() (loop.py:532) returns, or raises where the
\* environment has faults.
ReadOutcomes == IF cfg.faults THEN {TRUE, FALSE} ELSE {TRUE}

\* "/help" (loop.py:272-274)
ConsumeHelp ==
    LET r == PassOf(Head(inbound)) IN
    /\ Consumable
    /\ r.kind = "user" /\ Cmd(r.msg.content) = <<"/help">>
    /\ inbound' = Tail(inbound)
    /\ KeepSession(SessionOf(r))
    /\ Reply(r, outbound, OutboundMessage(r.channel, r.chat_id, HelpText))
    /\ UNCHANGED <<published, memory_file, history_file, files, message_ctx,
                   spawn_ctx, subagents, running_tasks, fixedVars>>

\* "/new" (loop.py:264-271) up to the summarizer's call, or to its end when
\* consolidation returns at once or the blob cannot be read.
ConsumeNew(readOk) ==
    LET r == PassOf(Head(inbound))
        s == SessionOf(r)
    IN
    /\ Consumable
    /\ readOk \in ReadOutcomes
    /\ r.kind = "user" /\ Cmd(r.msg.content) = <<"/new">>
    /\ inbound' = Tail(inbound)
    /\ IF s.messages = <<>>
       THEN /\ SaveSession(clear(s, clock))
            /\ Reply([r EXCEPT !.cons = "noop"], outbound,
                     OutboundMessage(r.channel, r.chat_id, NewSessionText))
            /\ UNCHANGED <<message_ctx, spawn_ctx>>
       ELSE IF ~readOk
       THEN /\ KeepSession(s)
            /\ TopLevelFault([r EXCEPT !.cons = "raised"], outbound, <<"read_long_term">>)
            /\ UNCHANGED <<message_ctx, spawn_ctx>>
       ELSE StartConsolidate(r, s, TRUE)
    /\ UNCHANGED <<published, memory_file, history_file, files, subagents,
                   running_tasks, fixedVars>>

\* Any other user message (loop.py:276-319) up to the first call of the
\* inference capability: the summarizer's if the session is longer than
\* the window, else the ReAct loop's.
BeginChat(r, readOk) ==
    LET s == SessionOf(r)
        old == Retire(s.messages, KeepCount(cfg.memory_window))
    IN
    /\ readOk \in ReadOutcomes
    /\ r.kind = "user" /\ Cmd(r.msg.content) \notin {<<"/new">>, <<"/help">>}
    /\ IF Len(s.messages) > cfg.memory_window
       THEN IF RetireEmpty(old)
            THEN StartReact([r EXCEPT !.cons = "noop"], s, memory_file)
            ELSE IF ~readOk
            THEN /\ KeepSession(s)
                 /\ TopLevelFault([r EXCEPT !.cons = "raised"], outbound,
                                  <<"read_long_term">>)
                 /\ UNCHANGED <<message_ctx, spawn_ctx>>
            ELSE StartConsolidate(r, s, FALSE)
       ELSE StartReact(r, s, memory_file)

ConsumeChat(readOk) ==
    /\ Consumable
    /\ inbound' = Tail(inbound)
    /\ BeginChat(PassOf(Head(inbound)), readOk)
    /\ UNCHANGED <<published, memory_file, history_file, files, subagents,
                   running_tasks, fixedVars>>

\* A delegate's report (loop.py:251-252, 383-447).
ConsumeSystem ==
    LET r == PassOf(Head(inbound)) IN
    /\ Consumable
    /\ r.kind = "system"
    /\ inbound' = Tail(inbound)
    /\ StartReact(r, SessionOf(r), memory_file)
    /\ UNCHANGED <<published, memory_file, history_file, files, subagents,
                   running_tasks, fixedVars>>

(***************************************************************************)
(* The summarizer's call returns (loop.py:551-577).  `o` is what comes of  *)
(* the rest of consolidation: which step faults, if any, and the entry     *)
(* and the replacement blob the answer carries (<<>> when absent).         *)
(***************************************************************************)
Outcome(fault, entry, update) == [fault |-> fault, entry |-> entry, update |-> update]
Summary(entry, update) == [entry |-> entry, update |-> update]
AllSummaries == {Summary(e, u) : e \in {<<>>, <<"entry">>}, u \in {<<>>, <<"facts">>}}
ConsolidationOutcomes ==
    {Outcome("none", m.entry, m.update) : m \in cfg.summaries}
    \cup (IF cfg.faults
          THEN {Outcome("chat", <<>>, <<>>), Outcome("parse", <<>>, <<>>),
                Outcome("append", <<"entry">>, <<"facts">>),
                Outcome("write", <<"entry">>, <<"facts", "more">>),
                Outcome("save", <<"later entry">>, <<"facts">>)}
          ELSE {})

\* A log that is opened for writing, not for appending.
rewrite_history(log, entry) == <<entry>>
\* MemoryStore.append_history (memory.py:77-87)
append_history(log, entry) == Append(log, entry)
\* A consolidation that writes the replacement whenever there is one.
ChangedOrNot(update, current_memory) == TRUE
\* if update != current_memory (loop.py:568)
Changed(update, current_memory) == update # current_memory
\* MemoryStore.write_long_term (memory.py:65-75)
write_long_term(content) == content

ConsolidateReturn(o) ==
    LET s == cache[run.key]
        appended == o.fault \notin {"chat", "parse", "append"} /\ o.entry # <<>>
        written == /\ o.fault \notin {"chat", "parse", "append", "write"}
                   /\ o.update # <<>> /\ Changed(o.update, run.current_memory)
        truncated == o.fault \notin {"chat", "parse", "append", "write"}
        saved == o.fault = "none"
        s1 == IF truncated
              THEN [s EXCEPT !.messages = Retain(s.messages, run.keep_count)]
              ELSE s
        d1 == IF saved THEN save_disk(disk, s1) ELSE disk
        mem == IF written THEN write_long_term(o.update) ELSE memory_file
        r == [run EXCEPT !.cons = IF o.fault = "none" THEN "done" ELSE "failed",
                         !.update = IF o.fault \in {"chat", "parse"} THEN <<>> ELSE o.update,
                         !.wrote = written]
    IN
    /\ run.pc = "consolidate"
    /\ history_file' = IF appended THEN append_history(history_file, o.entry)
                       ELSE history_file
    /\ memory_file' = mem
    /\ IF run.archive_all
       THEN \* session.clear(); self.sessions.save(session) (loop.py:268-271)
            /\ cache' = PutKey(cache, s.key, clear(s1, clock))
            /\ disk' = save_disk(d1, clear(s1, clock))
            /\ Reply(r, outbound, OutboundMessage(r.channel, r.chat_id, NewSessionText))
            /\ UNCHANGED <<message_ctx, spawn_ctx>>
       ELSE /\ message_ctx' = Ctx(r.channel, r.chat_id)
            /\ spawn_ctx' = Ctx(r.channel, r.chat_id)
            /\ LET r1 == [r EXCEPT !.messages =
                                 build_messages(get_history(s1), r.msg.content,
                                                r.channel, r.chat_id, mem),
                             !.iteration = 0]
               IN IF LoopGuard(r1.iteration)
                  THEN /\ StartInfer(r1, outbound)
                       /\ cache' = PutKey(cache, s.key, s1)
                       /\ disk' = d1
                  ELSE Finalize(r1, s1, outbound, None)
    /\ UNCHANGED <<inbound, published, files, subagents, running_tasks, fixedVars>>

(***************************************************************************)
(* What the inference capability may answer to a ReAct call: a text, no    *)
(* content at all, or one of the configured lists of tool-call requests,   *)
(* which get fresh correlation ids.  It may also raise.                    *)
(***************************************************************************)
ToolCalls(list, base) ==
    [i \in 1..Len(list) |-> ToolCallRequest(base + i, list[i].name, list[i].arguments)]
SpawnsIn(list) == Cardinality({i \in 1..Len(list) : list[i].name = "spawn"})
Offered(lists) ==
    {l \in lists : SpawnsIn(l) = 0 \/ Len(subagents) + SpawnsIn(l) <= cfg.maxSpawns}
AnswerText == <<"answer">>

\* What comes of the completion request the provider makes: the parsed
\* response, or the exception the request or the parsing raised.
\* reasoning_content (litellm_provider.py:285): what a reasoning model
\* sends along with its response, and None from the others.
NoPayload == <<>>
Thought == <<"thought">>
Completed(response) == [ok |-> TRUE, response |-> response, error |-> <<>>]
Failed(error) == [ok |-> FALSE, response |-> LLMResponse(None, <<>>, <<>>), error |-> error]
CompletionErrors == {<<"timeout">>}
Answers == {AnswerText, None}
Completions(lists, base) ==
    {Completed(LLMResponse(a, <<>>, <<>>)) : a \in cfg.answers}
    \cup {Completed(LLMResponse(None, ToolCalls(l, base), p)) :
              l \in lists, p \in cfg.payloads}
    \cup {Failed(e) : e \in cfg.errors}

\* A provider that answers a failed request with nothing.
chatSilent(completion) ==
    IF completion.ok THEN completion.response ELSE LLMResponse(None, <<>>, <<>>)
\* LiteLLMProvider.chat (litellm_provider.py:226-236): the failure is
\* returned as a response, f"Error calling LLM: {str(e)}", not raised.
ErrorCallingText(e) == <<"Error calling LLM:">> \o e
chat(completion) ==
    IF completion.ok THEN completion.response
    ELSE LLMResponse(ErrorCallingText(completion.error), <<>>, <<>>)
Responses(lists, base) == {chat(c) : c \in Completions(lists, base)}

\* The ReAct call returns (loop.py:322-356, 449-477).
ChatReturn(completion) ==
    LET response == chat(completion)
        r == [run EXCEPT !.first = IF run.reactCalls = 1 THEN response ELSE @,
                         !.failedAt = IF completion.ok THEN @ ELSE run.reactCalls]
    IN
    /\ run.pc = "infer"
    /\ IF has_tool_calls(response)
       THEN /\ run' = [r EXCEPT !.pc = "tools",
                                !.messages = add_assistant_message(
                                                 @, response.content, response.tool_calls,
                                                 response.reasoning_content),
                                !.pending = response.tool_calls,
                                !.got = Append(@, response),
                                !.requested = @ \o [i \in 1..Len(response.tool_calls) |->
                                                       response.tool_calls[i].id]]
            /\ UNCHANGED <<outbound, cache, disk>>
       ELSE Finalize(r, cache[run.key], outbound, response.content)
    /\ UNCHANGED <<inbound, published, memory_file, history_file, files, message_ctx,
                   spawn_ctx, subagents, running_tasks, fixedVars>>

\* An exception leaves the pass while it awaits the ReAct call: raised by
\* a provider that does not catch its own faults (the loop takes any
\* LLMProvider), or by anything else the pass runs unguarded.
ChatRaise ==
    /\ run.pc = "infer"
    /\ TopLevelFault(run, outbound, <<"inference failed">>)
    /\ UNCHANGED <<inbound, published, memory_file, history_file, files, message_ctx,
                   spawn_ctx, subagents, running_tasks, cache, disk, fixedVars>>

(***************************************************************************)
(* The effects of a tool's body on the world.                              *)
(***************************************************************************)
FilesAfter(eff) == IF eff.op = "write" THEN PutKey(files, eff.path, eff.data) ELSE files
OutboundAfter(eff) ==
    IF eff.op = "publish"
    THEN Append(outbound, OutboundMessage(eff.path[1], eff.path[2], eff.data))
    ELSE outbound
\* Every delegate still in _running_tasks sees the set change.
Disturb(subs) ==
    [i \in 1..Len(subs) |->
        IF subs[i].pc # "gone" THEN [subs[i] EXCEPT !.disturbed = TRUE] ELSE subs[i]]
\* SubagentManager.spawn (subagent.py:102-143)
SubagentsAfter(eff) ==
    IF eff.op = "spawn"
    THEN Append(Disturb(subagents),
                NewSubagent(eff.data, Ctx(eff.path[1], eff.path[2]),
                            Cardinality(running_tasks)))
    ELSE subagents
RunningAfter(eff) ==
    IF eff.op = "spawn" THEN running_tasks \cup {Len(subagents) + 1} ELSE running_tasks

FsToolNames == {"read_file", "write_file", "edit_file", "list_dir"}
FsLogEntry(tc, res, iteration) ==
    [id |-> tc.id, name |-> tc.name, path |-> ArgOr(tc.arguments, "path", <<>>),
     op |-> res.eff.op, text |-> res.text, iteration |-> iteration]

\* One tool call of the response is executed and its result appended
\* (loop.py:341-352, 466-474); after the last one the steering turn is
\* appended and the loop goes round.
Dispatch ==
    LET tc == NextCall(run.pending)
        res == RegistryExecute(tools, tc.name, tc.arguments,
                               Env(cfg.allowed_dir, files, message_ctx, spawn_ctx))
        r1 == [run EXCEPT !.messages = add_tool_result(@, tc.id, tc.name, res.text),
                          !.pending = Tail(@),
                          !.tools_used = IF run.kind = "user" THEN Append(@, tc.name) ELSE @,
                          !.executed = Append(@, tc.id),
                          !.fsLog = IF tc.name \in FsToolNames
                                    THEN Append(@, FsLogEntry(tc, res, run.iteration))
                                    ELSE @]
        r2 == [r1 EXCEPT !.messages = Append(@, ReflectTurn)]
    IN
    /\ run.pc = "tools"
    /\ files' = FilesAfter(res.eff)
    /\ subagents' = SubagentsAfter(res.eff)
    /\ running_tasks' = RunningAfter(res.eff)
    /\ IF res.kind = "raise"
       THEN TopLevelFault(run, OutboundAfter(res.eff), res.text) /\ UNCHANGED <<cache, disk>>
       ELSE IF r1.pending # <<>>
       THEN /\ run' = r1
            /\ outbound' = OutboundAfter(res.eff)
            /\ UNCHANGED <<cache, disk>>
       ELSE LoopOrFinalize(r2, cache[run.key], OutboundAfter(res.eff))
    /\ UNCHANGED <<inbound, published, memory_file, history_file, message_ctx,
                   spawn_ctx, fixedVars>>

(***************************************************************************)
(* The background delegates (agent/subagent.py).                           *)
(***************************************************************************)
\* The delegate's registry (subagent.py:171-189): no message, no spawn.
SubagentToolNames ==
    {"read_file", "write_file", "edit_file", "list_dir", "exec", "web_search", "web_fetch"}
\* A delegate given the main loop's two extra tools.
SubagentRegistryWithAll == [n \in SubagentToolNames \cup {"message", "spawn"} |-> n]
SubagentRegistry == [n \in SubagentToolNames |-> n]

\* _announce_result (subagent.py:263-309)
StatusText(status) == IF status = "ok" THEN "completed successfully" ELSE "failed"
AnnounceContent(task, status, result) ==
    <<"[Subagent", StatusText(status), "]", "Task:">> \o task \o <<"Result:">> \o result
Announcement(d, status, result) ==
    InboundMessage(SystemChannel, "subagent",
                   d.origin.channel \o <<":">> \o d.origin.chat_id,
                   AnnounceContent(d.task, status, result))
NoFinalText == <<"Task completed but no final response was generated.">>

\* The delegate announces and returns (subagent.py:251-261).
SubFinish(i, d, status, result) ==
    /\ inbound' = Append(inbound, Announcement(d, status, result))
    /\ subagents' = [subagents EXCEPT ![i] =
                        [d EXCEPT !.pc = "finished",
                                  !.announced = Append(@, StatusText(status)),
                                  !.messages = <<>>, !.pending = <<>>]]
\* No handler: the exception ends the delegate and nothing is announced.
SubRaiseLost(i, d, e) ==
    /\ subagents' = [subagents EXCEPT ![i] =
                        [d EXCEPT !.pc = "finished", !.raised = TRUE,
                                  !.messages = <<>>, !.pending = <<>>]]
    /\ UNCHANGED inbound
\* except Exception as e (subagent.py:257-261)
SubRaise(i, d, e) == SubFinish(i, [d EXCEPT !.raised = TRUE], "error", <<"Error:">> \o e)

\* A loop head that lets the delegate go round once more.
SubLoopOnceMore(i, d) ==
    IF d.iteration <= SubagentMaxIterations
    THEN /\ subagents' = [subagents EXCEPT ![i] =
                             [d EXCEPT !.pc = "infer", !.iteration = @ + 1]]
         /\ UNCHANGED inbound
    ELSE SubFinish(i, d, "ok", NoFinalText)
\* The head of the delegate's while loop (subagent.py:205-213, 251-255).
SubLoop(i, d) ==
    IF d.iteration < SubagentMaxIterations
    THEN /\ subagents' = [subagents EXCEPT ![i] =
                             [d EXCEPT !.pc = "infer", !.iteration = @ + 1]]
         /\ UNCHANGED inbound
    ELSE SubFinish(i, d, "ok", NoFinalText)

subFrame == <<outbound, published, memory_file, history_file, run, message_ctx,
              spawn_ctx, cache, disk, fixedVars>>

\* The delegate starts to run (subagent.py:167-213): its tools are set up,
\* its two turns built, the loop entered.
SubStart(i, setupOk) ==
    LET d == subagents[i] IN
    /\ d.pc = "start"
    /\ setupOk \in ReadOutcomes
    /\ IF setupOk
       THEN SubLoop(i, [d EXCEPT !.messages =
                           <<LLMTurn("system", <<"subagent prompt">> \o d.task),
                             LLMTurn("user", d.task)>>])
       ELSE SubRaise(i, d, <<"tool setup failed">>)
    /\ UNCHANGED <<files, running_tasks, subFrame>>

\* The delegate's inference call returns (subagent.py:215-249).
SubChatReturn(i, response) ==
    LET d == subagents[i] IN
    /\ d.pc = "infer"
    /\ IF has_tool_calls(response)
       THEN /\ subagents' = [subagents EXCEPT ![i] =
                  [d EXCEPT !.pc = "tools",
                            !.messages = Append(@,
                                [LLMTurn("assistant", OrEmpty(response.content))
                                     EXCEPT !.tool_calls = response.tool_calls]),
                            !.pending = response.tool_calls,
                            !.got = Append(@, response),
                            !.requested = @ \o [k \in 1..Len(response.tool_calls) |->
                                                   response.tool_calls[k].id]]]
            /\ UNCHANGED inbound
       ELSE SubFinish(i, d, "ok",
                      IF response.content = None THEN NoFinalText ELSE response.content)
    /\ UNCHANGED <<files, running_tasks, subFrame>>

\* The delegate's inference call raises.
SubChatRaise(i) ==
    /\ subagents[i].pc = "infer"
    /\ SubRaise(i, subagents[i], <<"inference failed">>)
    /\ UNCHANGED <<files, running_tasks, subFrame>>

\* One tool call of the delegate (subagent.py:236-245).
SubDispatch(i) ==
    /\ subagents[i].pc = "tools"
    /\ \E res \in {RegistryExecute(SubagentRegistry, NextCall(subagents[i].pending).name,
                                    NextCall(subagents[i].pending).arguments,
                                    Env(cfg.allowed_dir, files, NoCtx, DefaultCtx))} :
          LET d == subagents[i]
              tc == NextCall(d.pending)
              d1 == [d EXCEPT !.messages = add_tool_result(@, tc.id, tc.name, res.text),
                              !.pending = Tail(@),
                              !.executed = Append(@, tc.id)]
          IN
          /\ files' = FilesAfter(res.eff)
          /\ IF res.kind = "raise" THEN SubRaise(i, d, res.text)
             ELSE IF d1.pending # <<>>
             THEN subagents' = [subagents EXCEPT ![i] = d1] /\ UNCHANGED inbound
             ELSE SubLoop(i, d1)
    /\ UNCHANGED <<running_tasks, subFrame>>

\* The done callback (subagent.py:140): self._running_tasks.pop(task_id, None)
SubDone(i) ==
    /\ subagents[i].pc = "finished"
    /\ running_tasks' = running_tasks \ {i}
    /\ subagents' = [Disturb(subagents) EXCEPT ![i] =
                        [subagents[i] EXCEPT !.pc = "gone",
                                             !.postCount = Cardinality(running_tasks \ {i})]]
    /\ UNCHANGED <<inbound, files, subFrame>>

\* SubagentManager.get_running_count (subagent.py:363-370)
get_running_count == Cardinality(running_tasks)

(***************************************************************************)
(* The agent as a whole.  `cfg` fixes the configuration (memory_window,    *)
(* allowed_dir) and what the environment offers: the users' texts, how     *)
(* many of them, the lists of tool calls the inference capability may      *)
(* request in the main loop and in a delegate, how many delegates in all,  *)
(* and whether the environment faults.                                     *)
(***************************************************************************)
MaxUserMsgs == 2
MaxDirect == 1
MaxSpawns == 2

\* _register_default_tools (loop.py:133-178), without a cron service.
DefaultToolNames ==
    {"read_file", "write_file", "edit_file", "list_dir", "exec", "web_search",
     "web_fetch", "message", "spawn"}
DefaultRegistry == [n \in DefaultToolNames |-> n]

Call(name, pairs) == [name |-> name, arguments |-> JObj(pairs)]
PathArg(path) == << <<"path", JStr(path)>> >>
SpawnCall == Call("spawn", << <<"task", JStr(<<"job">>)>> >>)
NoSuchCall == Call("nosuch", <<>>)
ShellCall == Call("exec", << <<"command", JStr(<<"ls">>)>> >>)
MessageCall == Call("message", << <<"content", JStr(<<"note">>)>> >>)

\* The workspace, and the files on disk at the start.
Workspace == <<"/", "w">>
InsideFile == <<"/", "w", "/", "a">>
SiblingFile == <<"/", "w", "x", "/", "s">>
OutsideFile == <<"/", "e", "/", "p">>
ClimbingPath == <<"/", "w", "/", ".", ".", "/", "e", "/", "p">>
RelativePath == <<"a">>
InitFiles ==
    [q \in {Resolve(InsideFile), Resolve(SiblingFile), Resolve(OutsideFile)} |->
        IF q = Resolve(InsideFile) THEN <<"alpha">>
        ELSE IF q = Resolve(SiblingFile) THEN <<"secret">> ELSE <<"passwd">>]

\* A session an earlier run of the program left on disk.
StoredSession(key, n) ==
    [NewSession(key, 0) EXCEPT
        !.messages = [i \in 1..n |->
                         Turn(IF i % 2 = 1 THEN "user" ELSE "assistant", <<"old">>, 0,
                              <<>>)]]
UserKey == UserChannel \o <<":">> \o UserChat
StoredDisk(n) ==
    IF n = 0 THEN EmptyMap ELSE save_disk(EmptyMap, StoredSession(UserKey, n))

InitAgent(c, d) ==
    /\ tools = DefaultRegistry
    /\ lastExec = NoExec
    /\ latest = [n \in ToolNames |->
                    [tool |-> get(DefaultRegistry, n), replaced |-> FALSE]]
    /\ cache = EmptyMap
    /\ disk = d
    /\ clock = 0
    /\ lastSave = NoSave
    /\ inbound = <<>>
    /\ outbound = <<>>
    /\ published = 0
    /\ memory_file = <<>>
    /\ history_file = <<>>
    /\ files = InitFiles
    /\ cfg = c
    /\ run = NewRun
    /\ message_ctx = NoCtx
    /\ spawn_ctx = DefaultCtx
    /\ subagents = <<>>
    /\ running_tasks = {}
    /\ other = NoDirect
    /\ bus = BusIdle
    /\ cron = CronIdle

\* The three loops: one user, whose stored session is longer than the
\* window, an inference capability that asks for a delegate, and the
\* delegate, which asks for tools in its turn.
Init ==
    InitAgent([memory_window |-> 1, allowed_dir |-> NoDir,
               userTexts |-> {<<"hi">>}, maxUser |-> 1,
               toolLists |-> {<<SpawnCall, NoSuchCall>>, <<NoSuchCall, ShellCall>>},
               subLists |-> {<<Call("read_file", PathArg(InsideFile)), MessageCall,
                                SpawnCall>>},
               maxSpawns |-> 1, summaries |-> {Summary(<<"entry">>, <<"facts">>)},
               faults |-> FALSE, chats |-> {UserChat, ColonChat},
               errors |-> CompletionErrors, answers |-> Answers, payloads |-> {NoPayload}],
              StoredDisk(4))

Core ==
    \/ \E chat_id \in cfg.chats, content \in cfg.userTexts : Publish(chat_id, content)
    \/ \E readOk \in BOOLEAN : ConsumeChat(readOk)
    \/ \E completion \in Completions(Offered(cfg.toolLists), Len(run.requested)) :
          ChatReturn(completion)
    \/ ChatRaise
    \/ Dispatch

Next ==
    \/ Core
    \/ ConsumeSystem
    \/ \E o \in ConsolidationOutcomes : ConsolidateReturn(o)
    \/ \E i \in 1..Len(subagents), setupOk \in BOOLEAN : SubStart(i, setupOk)
    \/ \E i \in 1..Len(subagents) :
          \E response \in Responses(cfg.subLists, Len(subagents[i].requested)) :
              SubChatReturn(i, response)
    \/ \E i \in 1..Len(subagents) : SubChatRaise(i)
    \/ \E i \in 1..Len(subagents) : SubDispatch(i)
    \/ \E i \in 1..Len(subagents) : SubDone(i)

Spec == Init /\ [][Next]_vars

\* Reports on a short window: the window is 2 or 3, the stored session is
\* within it or above it, the user's pass asks for a delegate, and the
\* delegate's report comes back into the same session.  Nothing faults in
\* consolidation.
ReportWindows == {2, 3}
ReportStored == {2, 4}
InitReports ==
    \E w \in ReportWindows, n \in ReportStored :
        InitAgent([memory_window |-> w, allowed_dir |-> NoDir,
                   userTexts |-> {<<"hi">>}, maxUser |-> 1,
                   toolLists |-> {<<SpawnCall>>},
                   subLists |-> {<<ShellCall>>},
                   maxSpawns |-> 1, summaries |-> {Summary(<<"entry">>, <<"facts">>)},
                   faults |-> FALSE, chats |-> {UserChat},
                   errors |-> CompletionErrors, answers |-> {AnswerText},
                   payloads |-> {NoPayload}],
                  StoredDisk(n))

SpecReports == InitReports /\ [][Next]_vars

\* Delegates side by side: the inference capability asks for one delegate
\* after another, and they run, fault and report while the loop goes on.
\* These delegates are not offered tool calls, so none is dispatched; the
\* completion requests of this configuration do not fail, and an answer
\* without tool calls always has a text.
InitDelegates ==
    InitAgent([memory_window |-> DefaultMemoryWindow, allowed_dir |-> NoDir,
               userTexts |-> {<<"hi">>}, maxUser |-> 1,
               toolLists |-> {<<SpawnCall>>},
               subLists |-> {},
               maxSpawns |-> MaxSpawns, summaries |-> {}, faults |-> TRUE,
               chats |-> {UserChat}, errors |-> {}, answers |-> {AnswerText},
               payloads |-> {NoPayload}],
              EmptyMap)

NextDelegates ==
    \/ Core
    \/ ConsumeSystem
    \/ \E i \in 1..Len(subagents), setupOk \in BOOLEAN : SubStart(i, setupOk)
    \/ \E i \in 1..Len(subagents) :
          \E response \in Responses(cfg.subLists, Len(subagents[i].requested)) :
              SubChatReturn(i, response)
    \/ \E i \in 1..Len(subagents) : SubChatRaise(i)
    \/ \E i \in 1..Len(subagents) : SubDone(i)

SpecDelegates == InitDelegates /\ [][NextDelegates]_vars

\* Conversations: users chat, start afresh and ask for help; sessions grow
\* past the window and are consolidated; the environment may fault.
MemoryWindows == {1, DefaultMemoryWindow}
StoredTurns == {0, 4}
InitConversation ==
    \E w \in MemoryWindows, n \in StoredTurns :
        InitAgent([memory_window |-> w, allowed_dir |-> NoDir,
                   userTexts |-> {<<"hi">>, <<"/new">>, <<"/help">>},
                   maxUser |-> MaxUserMsgs,
                   toolLists |-> {<<NoSuchCall, ShellCall>>},
                   subLists |-> {}, maxSpawns |-> 0, summaries |-> AllSummaries,
                   faults |-> TRUE, chats |-> {UserChat}, errors |-> CompletionErrors,
                   answers |-> Answers, payloads |-> {NoPayload}],
                  StoredDisk(n))

NextConversation ==
    \/ Core
    \/ ConsumeHelp
    \/ \E readOk \in BOOLEAN : ConsumeNew(readOk)
    \/ \E o \in ConsolidationOutcomes : ConsolidateReturn(o)

SpecConversation == InitConversation /\ [][NextConversation]_vars

\* The sandbox: the tools are restricted to the workspace and the
\* inference capability asks for files inside and outside of it.
SandboxLists ==
    {<<Call("read_file", PathArg(p))>> :
        p \in {InsideFile, SiblingFile, OutsideFile, ClimbingPath, RelativePath}}
    \cup {<<Call("write_file", PathArg(p) \o << <<"content", JStr(<<"new">>)>> >>)>> :
            p \in {SiblingFile, OutsideFile}}
    \cup {<<Call("edit_file", PathArg(OutsideFile)
                    \o << <<"old_text", JStr(<<"passwd">>)>>, <<"new_text", JStr(<<"x">>)>> >>)>>,
          <<Call("list_dir", PathArg(<<"/", "e">>))>>,
          <<Call("list_dir", PathArg(<<"/", "w", "x">>))>>}
InitSandbox ==
    InitAgent([memory_window |-> DefaultMemoryWindow, allowed_dir |-> Workspace,
               userTexts |-> {<<"hi">>}, maxUser |-> 1,
               toolLists |-> SandboxLists,
               subLists |-> {}, maxSpawns |-> 0, summaries |-> {}, faults |-> FALSE,
               chats |-> {UserChat}, errors |-> CompletionErrors,
               answers |-> Answers, payloads |-> {NoPayload}],
              EmptyMap)

SpecSandbox == InitSandbox /\ [][Core]_vars

\* Two conversations at once: users write from two chats while the loop is
\* in a pass that calls tools.
InitTwoChats ==
    InitAgent([memory_window |-> DefaultMemoryWindow, allowed_dir |-> NoDir,
               userTexts |-> {<<"hi">>}, maxUser |-> MaxUserMsgs,
               toolLists |-> {<<ShellCall>>},
               subLists |-> {}, maxSpawns |-> 0, summaries |-> {}, faults |-> FALSE,
               chats |-> {UserChat, OtherChat}, errors |-> CompletionErrors,
               answers |-> Answers, payloads |-> {NoPayload}],
              EmptyMap)

SpecTwoChats == InitTwoChats /\ [][Core]_vars

\* A reasoning model: its responses with tool calls come with
\* reasoning_content, to the main loop and to the delegate it spawns.
InitPayload ==
    InitAgent([memory_window |-> 1, allowed_dir |-> NoDir,
               userTexts |-> {<<"hi">>}, maxUser |-> 1,
               toolLists |-> {<<SpawnCall>>, <<ShellCall>>},
               subLists |-> {<<ShellCall>>},
               maxSpawns |-> 1, summaries |-> {Summary(<<"entry">>, <<"facts">>)},
               faults |-> FALSE, chats |-> {UserChat}, errors |-> {},
               answers |-> {AnswerText}, payloads |-> {Thought}],
              StoredDisk(4))

SpecPayload == InitPayload /\ [][Next]_vars

\* The same, with the event loop running every delegate whose awaited
\* call has returned: create_task schedules the delegate (subagent.py:134)
\* and the done callback is scheduled when it returns (subagent.py:140).
DelegateStep(i) ==
    /\ i <= Len(subagents)
    /\ \/ \E setupOk \in BOOLEAN : SubStart(i, setupOk)
       \/ \E response \in Responses(cfg.subLists, Len(subagents[i].requested)) :
              SubChatReturn(i, response)
       \/ SubChatRaise(i)
       \/ SubDispatch(i)
       \/ SubDone(i)
SpecDelegateRuns ==
    InitPayload /\ [][Next]_vars /\ \A i \in 1..MaxSpawns : WF_vars(DelegateStep(i))

(***************************************************************************)
(* The gateway (cli/commands.py:472-478) runs the run loop, the cron       *)
(* service and the heartbeat on one event loop.  A cron job and a          *)
(* heartbeat call AgentLoop.process_direct, which runs _process_message    *)
(* beside the pass the run loop may be in.  Of the two passes, `run` is    *)
(* the one taking its steps and `other` the one suspended at its await.    *)
(***************************************************************************)
HeartbeatKey == <<"h", "e", "a", "r", "t", "b", "e", "a", "t">>
CronKey(id) == <<"c", "r", "o", "n", ":">> \o id
CliChannel == <<"c", "l", "i">>
DirectChat == <<"d", "i", "r", "e", "c", "t">>
\* on_heartbeat (commands.py:448-450): channel and chat_id by default.
Heartbeat ==
    [session_key |-> HeartbeatKey, channel |-> CliChannel, chat_id |-> DirectChat,
     content |-> <<"check">>]
\* on_cron_job (commands.py:429-436) for a job the cron tool has added from
\* a user's conversation (tools/cron.py): channel and to are that
\* conversation's.
CronJob(id, channel, to) ==
    [session_key |-> CronKey(id), channel |-> channel, chat_id |-> to,
     content |-> <<"remind">>]
DirectCalls == {Heartbeat, CronJob(<<"j">>, UserChannel, UserChat)}

\* A process_direct that leaves the session key to the message.
DirectKeyOfMessage(src) == src.channel \o <<":">> \o src.chat_id
\* key = session_key or msg.session_key (loop.py:260)
DirectKey(src) == src.session_key

\* AgentLoop.process_direct (loop.py:579-612) up to the first await of
\* _process_message.
process_direct(src, readOk) ==
    LET msg == InboundMessage(src.channel, "user", src.chat_id, src.content)
        r0 == [NewRun EXCEPT !.kind = "user", !.msg = msg, !.key = DirectKey(src),
                             !.channel = src.channel, !.chat_id = src.chat_id,
                             !.via = "direct", !.nth = run.nth + 1]
        r == [r0 EXCEPT !.before = SessionOf(r0).messages, !.outAt = Len(outbound)]
    IN
    /\ run.via = "direct" /\ run.pc = "off"
    /\ run.nth < MaxDirect
    /\ BeginChat(r, readOk)
    /\ UNCHANGED <<inbound, published, memory_file, history_file, files, subagents,
                   running_tasks, fixedVars>>

\* The event loop resumes the other coroutine: both are at an await.
Switch ==
    /\ run' = other
    /\ other' = run
    /\ UNCHANGED <<tools, lastExec, latest, cache, disk, clock, lastSave, inbound,
                   outbound, published, memory_file, history_file, files, cfg,
                   message_ctx, spawn_ctx, subagents, running_tasks, bus, cron>>

\* One user, a heartbeat and a cron job of that user's; the inference
\* capability asks for a delegate and for a message to be sent.
InitDirect ==
    InitAgent([memory_window |-> DefaultMemoryWindow, allowed_dir |-> NoDir,
               userTexts |-> {<<"hi">>}, maxUser |-> 1,
               toolLists |-> {<<SpawnCall, MessageCall>>},
               subLists |-> {}, maxSpawns |-> 1,
               summaries |-> {Summary(<<"entry">>, <<"facts">>)},
               faults |-> FALSE, chats |-> {UserChat}, errors |-> {},
               answers |-> {AnswerText}, payloads |-> {NoPayload}],
              EmptyMap)

NextDirect ==
    \/ Core
    \/ \E src \in DirectCalls, readOk \in BOOLEAN : process_direct(src, readOk)
    \/ Switch

SpecDirect == InitDirect /\ [][NextDirect]_vars

\* Sessions of several lengths against windows of several sizes: an
\* earlier run left n turns, told apart by their times, one of them an
\* answer of the inference capability that was the empty text
\* (loop.py:352, 369-371).
TimedSession(key, n, emptyAt) ==
    [NewSession(key, 0) EXCEPT
        !.messages = [i \in 1..n |->
                         Turn(IF i % 2 = 1 THEN "user" ELSE "assistant",
                              IF i = emptyAt THEN <<>> ELSE <<"old">>, i, <<>>)]]
RetireCase(window, n, emptyAt) == [window |-> window, n |-> n, emptyAt |-> emptyAt]
RetireCases ==
    {RetireCase(1, 3, 0), RetireCase(2, 3, 0), RetireCase(3, 5, 1), RetireCase(4, 6, 2),
     RetireCase(7, 8, 0),
     RetireCase(20, 21, 4), RetireCase(DefaultMemoryWindow, DefaultMemoryWindow + 1, 0),
     RetireCase(HistoryMax + 10, HistoryMax + 2, 1)}
InitRetire ==
    \E c \in RetireCases :
        InitAgent([memory_window |-> c.window, allowed_dir |-> NoDir,
                   userTexts |-> {<<"hi">>, <<"/new">>, <<"/help">>}, maxUser |-> 1,
                   toolLists |-> {<<ShellCall>>},
                   subLists |-> {}, maxSpawns |-> 0,
                   summaries |-> {Summary(<<"entry">>, <<"facts">>)},
                   faults |-> FALSE, chats |-> {UserChat}, errors |-> {},
                   answers |-> {AnswerText}, payloads |-> {NoPayload}],
                  save_disk(EmptyMap, TimedSession(UserKey, c.n, c.emptyAt)))

SpecRetire == InitRetire /\ [][NextConversation]_vars

\* Control turns: a user who chats, starts afresh and asks for help, with
\* the commands written plainly, in capitals and with blanks around them.
ControlTexts == {<<"/new">>, <<" ", "/NEW">>, <<"/help">>, <<"/Help", " ">>}
InitControl ==
    InitAgent([memory_window |-> DefaultMemoryWindow, allowed_dir |-> NoDir,
               userTexts |-> ControlTexts \cup {<<"hi">>},
               maxUser |-> MaxUserMsgs,
               toolLists |-> {<<ShellCall>>},
               subLists |-> {}, maxSpawns |-> 0,
               summaries |-> {Summary(<<"entry">>, <<"facts">>)},
               faults |-> FALSE, chats |-> {UserChat}, errors |-> {},
               answers |-> {AnswerText}, payloads |-> {NoPayload}],
              StoredDisk(4))

SpecControl == InitControl /\ [][NextConversation]_vars

\* AgentLoop.stop (loop.py:220-227), called at any moment by whoever shuts
\* the process down.
stop ==
    /\ run._running
    /\ run' = [run EXCEPT !._running = FALSE,
                          !.stopAt = [consumed |-> published - Len(inbound),
                                      calls |-> run.calls, pc |-> run.pc]]
    /\ UNCHANGED <<inbound, outbound, published, memory_file, history_file, files,
                   message_ctx, spawn_ctx, subagents, running_tasks, cache, disk,
                   fixedVars>>

\* wait_for(consume_inbound(), 1.0) times out with nothing to consume and
\* the while test fails (loop.py:195-202, 217-218): run returns.
ConsumeTimeout ==
    /\ run.pc = "idle" /\ inbound = <<>>
    /\ ~run._running
    /\ run' = [run EXCEPT !.pc = "returned"]
    /\ UNCHANGED <<inbound, outbound, published, memory_file, history_file, files,
                   message_ctx, spawn_ctx, subagents, running_tasks, cache, disk,
                   fixedVars>>

\* The loop with a shutdown: two users write, the passes call a tool, and
\* stop is called at some moment.
NextStop ==
    \/ Core
    \/ stop
    \/ ConsumeTimeout

SpecStop == InitTwoChats /\ [][NextStop]_vars

(***************************************************************************)
(* C3: in every pass over one inbound message, user-originated or          *)
(* system-originated, and whatever the inference capability answers, the   *)
(* number of inference calls of the pass, the consolidation call           *)
(* included, is at most max_iterations + 1; the iteration counter goes up  *)
(* by one with each ReAct call (so it equals their number) and never       *)
(* exceeds max_iterations.                                                 *)
(***************************************************************************)
C3_InferenceCallsBounded ==
    /\ run.calls <= max_iterations + 1
    /\ run.calls = run.reactCalls + run.consCalls
    /\ run.reactCalls = run.iteration
    /\ run.iteration <= max_iterations

\* A pass that consolidated and then used every iteration.
C3_Witness ==
    /\ run.consCalls = 1
    /\ run.iteration = max_iterations
    /\ run.calls = max_iterations + 1

(***************************************************************************)
(* C4: in the main loop, the system-message loop and the delegate loop,    *)
(* every tool-call request of a response is executed exactly once, in      *)
(* request order, and one tool-result turn with its correlation id is      *)
(* appended for it, in that order, before the next inference call: while   *)
(* an inference call is in flight the executed ids and the ids of the      *)
(* tool-result turns are exactly the requested ids; while tools run they   *)
(* are the requested ids less the pending ones.                            *)
(***************************************************************************)
IsToolTurn(turn) == turn.role = "tool"
ToolResultIds(messages) ==
    LET ts == SelectSeq(messages, IsToolTurn) IN [i \in 1..Len(ts) |-> ts[i].tool_call_id]
IdsOf(calls) == [i \in 1..Len(calls) |-> calls[i].id]
LoopPaired(l) ==
    /\ l.pc = "infer" =>
          /\ l.executed = l.requested
          /\ ToolResultIds(l.messages) = l.requested
    /\ l.pc = "tools" =>
          /\ l.executed \o IdsOf(l.pending) = l.requested
          /\ ToolResultIds(l.messages) = l.executed
    /\ l.pc \notin {"infer", "tools"} => l.executed = l.requested

C4_ToolCallsPaired ==
    /\ LoopPaired(run)
    /\ \A i \in 1..Len(subagents) : LoopPaired(subagents[i])

\* A system-message pass has executed a response's two calls and called
\* the inference capability again, after a delegate did the same in its loop.
C4_Witness ==
    /\ run.kind = "system" /\ run.pc = "infer" /\ Len(run.executed) = 2
    /\ Len(ToolResultIds(run.messages)) = 2
    /\ \E i \in 1..Len(subagents) : Len(subagents[i].executed) >= 2

(***************************************************************************)
(* C5, as stated: a delegate whose run raised (in its inference call or    *)
(* in its tool setup) has published exactly one announcement, marked       *)
(* failed, and once it is removed the live-delegate count equals the       *)
(* count before its spawn.                                                 *)
(***************************************************************************)
C5_Claim ==
    \A i \in 1..Len(subagents) :
        (subagents[i].raised /\ subagents[i].pc = "gone") =>
            /\ subagents[i].announced = <<"failed">>
            /\ subagents[i].postCount = subagents[i].preCount

(***************************************************************************)
(* C5, amended: a delegate whose run raised has published exactly one      *)
(* announcement, marked failed; its completion removes its own entry from  *)
(* the live set, and the live-delegate count then equals the count before  *)
(* its spawn provided no other delegate was spawned or removed in between. *)
(***************************************************************************)
C5_Amended ==
    \A i \in 1..Len(subagents) :
        /\ (subagents[i].raised /\ subagents[i].pc \in {"finished", "gone"}) =>
              subagents[i].announced = <<"failed">>
        /\ subagents[i].pc = "gone" =>
              /\ i \notin running_tasks
              /\ ~subagents[i].disturbed =>
                    subagents[i].postCount = subagents[i].preCount

\* A delegate raised, announced its failure and was removed, alone.
C5_Witness ==
    \E i \in 1..Len(subagents) :
        /\ subagents[i].raised /\ subagents[i].pc = "gone"
        /\ ~subagents[i].disturbed
        /\ subagents[i].postCount = subagents[i].preCount
        /\ subagents[i].announced = <<"failed">>

(***************************************************************************)
(* A pass has ended with a reply, and the first answer of its ReAct loop   *)
(* was a text without tool-call requests.                                  *)
(***************************************************************************)
PureTextPass ==
    /\ run.pc = "idle" /\ run.outcome = "replied"
    /\ run.reactCalls >= 1
    /\ ~has_tool_calls(run.first) /\ run.first.content # None

(***************************************************************************)
(* C6, as stated: in every pass whose first ReAct inference call returns   *)
(* pure text, exactly one inference call occurs in the pass and the        *)
(* outbound reply's content equals that text.                              *)
(***************************************************************************)
C6_Claim ==
    PureTextPass => run.calls = 1 /\ run.reply.content = run.first.content

(***************************************************************************)
(* C6, amended: in every pass whose first ReAct inference call returns     *)
(* pure text, exactly one ReAct inference call occurs; the only other      *)
(* inference call the pass may have made is the one consolidation call     *)
(* that precedes the ReAct loop when the session was longer than the       *)
(* window; and the outbound reply's content equals that text.              *)
(***************************************************************************)
C6_Amended ==
    PureTextPass =>
        /\ run.reactCalls = 1
        /\ run.calls = 1 + run.consCalls
        /\ run.consCalls <= 1
        /\ run.consCalls = 1 => Len(run.before) > cfg.memory_window
        /\ run.reply.content = run.first.content
        /\ outbound[Len(outbound)] = run.reply

\* A pass consolidated first, then got a pure text at once and replied it.
C6_Witness ==
    /\ PureTextPass
    /\ run.consCalls = 1 /\ run.calls = 2
    /\ run.reply.content = AnswerText

(***************************************************************************)
(* C7: a pass over the text "/new" on a session with prior turns ends      *)
(* with exactly one outbound message, the confirmation, addressed to the   *)
(* sender's conversation, and the session as loaded from the store         *)
(* afterwards has no turns, whatever came of the consolidation step.       *)
(***************************************************************************)
NewPassEnded ==
    /\ run.pc = "idle" /\ run.kind = "user"
    /\ Cmd(run.msg.content) = <<"/new">>
    /\ run.before # <<>>

C7_Claim ==
    NewPassEnded =>
        /\ Len(outbound) = run.outAt + 1
        /\ outbound[Len(outbound)] =
              OutboundMessage(run.msg.channel, run.msg.chat_id, NewSessionText)
        /\ _get_session_path(run.key) \in DOMAIN disk
        /\ _load(disk, run.key, clock).messages = <<>>

(***************************************************************************)
(* C8: with a sandbox directory configured, every filesystem tool call     *)
(* whose path resolves outside that directory performs no file operation,  *)
(* its tool-result turn's text begins with "Error:", and the inference     *)
(* capability is called again with that turn in the list.                  *)
(***************************************************************************)
Outside(path) ==
    cfg.allowed_dir # NoDir /\ ~PathAllowedByComponents(path, cfg.allowed_dir)

C8_Claim ==
    \A k \in 1..Len(run.fsLog) :
        LET e == run.fsLog[k] IN
        Outside(e.path) =>
            /\ e.op \notin FsOps
            /\ BeginsWith(e.text, "Error:")
            /\ run.pc = "infer" =>
                  \E j \in 1..Len(run.messages) :
                      /\ run.messages[j].role = "tool"
                      /\ run.messages[j].tool_call_id = e.id
                      /\ run.messages[j].content = e.text
            /\ run.pc = "idle" => e.iteration < run.iteration

(***************************************************************************)
(* C10: consolidation with an empty retirement set (the session is empty   *)
(* on "/new", or is longer than the window but no longer than the          *)
(* retained tail) is a no-op each time it happens: the step that enters    *)
(* it makes no consolidation call to the inference capability and leaves   *)
(* the durable blob, the history log and the session's turns as they were. *)
(***************************************************************************)
EmptyRetirement ==
    /\ Consumable
    /\ LET r == PassOf(Head(inbound))
           n == Len(SessionOf(r).messages)
       IN /\ r.kind = "user"
          /\ \/ Cmd(r.msg.content) = <<"/new">> /\ n = 0
             \/ /\ Cmd(r.msg.content) \notin {<<"/new">>, <<"/help">>}
                /\ n > cfg.memory_window
                /\ n <= KeepCount(cfg.memory_window)

C10_EmptyRetirementNoOp ==
    [][(EmptyRetirement /\ inbound' = Tail(inbound)) =>
          /\ run'.pc # "consolidate"
          /\ run'.consCalls = 0
          /\ memory_file' = memory_file
          /\ history_file' = history_file
          /\ cache'[run'.key].messages = SessionOf(PassOf(Head(inbound))).messages
          /\ Cmd(run'.msg.content) # <<"/new">> => disk' = disk]_vars

\* A session longer than the window and no longer than the retained tail
\* went straight to the ReAct loop.
C10_Witness ==
    /\ run.cons = "noop" /\ run.pc = "infer" /\ run.consCalls = 0
    /\ Len(run.before) > cfg.memory_window
    /\ Len(run.before) = KeepCount(cfg.memory_window)

(***************************************************************************)
(* The registry by name.                                                   *)
(***************************************************************************)
\* The tool registered last under `name` and not unregistered since.
LatestOf(name) == IF name \in DOMAIN latest THEN latest[name].tool ELSE NoTool

\* What executing `name` with `params` gives when the tool run is `id`.
OutcomeWith(id, name, params) ==
    IF id = NoTool THEN Return(NotFoundText(name))
    ELSE ExceptException(name, ExecuteTry(ToolTable[id], name, params, RegistryEnv))

\* How many entries of the catalogue carry `name`.
EntriesNamed(defs, name) ==
    LET es == {e \in DOMAIN defs : e.name = name}
        Sum[S \in SUBSET es] ==
            IF S = {} THEN 0
            ELSE LET e == CHOOSE x \in S : TRUE IN defs[e] + Sum[S \ {e}]
    IN Sum[es]

CatalogueOneToOne ==
    LET defs == get_definitions(tools) IN
    /\ \A e \in DOMAIN defs : LatestOf(e.name) # NoTool
    /\ \A n \in ExecNames :
          /\ get(tools, n) = LatestOf(n)
          /\ has(tools, n) <=> LatestOf(n) # NoTool
          /\ EntriesNamed(defs, n) = IF LatestOf(n) = NoTool THEN 0 ELSE 1
          /\ LatestOf(n) # NoTool => to_schema(ToolTable[LatestOf(n)]) \in DOMAIN defs

ExecuteUsesLatest ==
    lastExec' # lastExec =>
        LET r == OutcomeWith(LatestOf(lastExec'.name), lastExec'.name, lastExec'.params)
        IN /\ lastExec'.kind = r.kind
           /\ lastExec'.text = r.text
           /\ lastExec'.invoked = r.invoked

(***************************************************************************)
(* C11: after any sequence of register and unregister operations, lookup   *)
(* and execute by name use the tool registered last under that name (if    *)
(* not unregistered since), and the schema catalogue has exactly one entry *)
(* per registered name, that tool's, and no entry for any other name.      *)
(***************************************************************************)
C11_LatestRegistrationWins == []CatalogueOneToOne /\ [][ExecuteUsesLatest]_vars

\* A second tool took the name "sample" over from the first; the name was
\* executed, and it was the second tool's body that ran and raised.
C11_Witness ==
    /\ latest["sample"] = [tool |-> "sample_v2", replaced |-> TRUE]
    /\ lastExec.name = "sample" /\ lastExec.invoked
    /\ BeginsWith(lastExec.text, "Error executing")
    /\ DOMAIN tools = {"sample", "web_search"}
    /\ get_definitions(tools)[to_schema(ToolTable["sample_v2"])] = 1

(***************************************************************************)
(* The outbound side of the bus (bus/queue.py) and the channel manager's   *)
(* dispatcher (channels/manager.py).                                       *)
(***************************************************************************)
MaxItems == 3
MaxSubscriptions == 3

BusChannels == {<<"t", "g">>, <<"d", "c">>}
UnknownChannel == <<"x">>
Callbacks == {"f", "g"}
ChannelSend == "send"
ItemTexts == <<"m1", "m2", "m3", "m4", "m5">>

busFrame == <<registryVars, storeVars, inbound, published, memory_file, history_file,
              files, cfg, run, message_ctx, spawn_ctx, subagents, running_tasks,
              other, cron>>

\* self._outbound_subscribers.get(channel, [])
SubscribersOf(subs, channel) == IF channel \in DOMAIN subs THEN subs[channel] ELSE <<>>

\* MessageBus.subscribe_outbound (queue.py:107-125)
subscribe_outbound(subs, channel, callback) ==
    [c \in DOMAIN subs \cup {channel} |->
        IF c = channel THEN Append(SubscribersOf(subs, channel), callback)
        ELSE subs[c]]

SubscriptionCount(subs) ==
    LET Sum[S \in SUBSET DOMAIN subs] ==
            IF S = {} THEN 0
            ELSE LET c == CHOOSE x \in S : TRUE IN Len(subs[c]) + Sum[S \ {c}]
    IN Sum[DOMAIN subs]

\* A channel, or anything else, subscribes a callback to a channel's items.
BusSubscribe(channel, callback) ==
    /\ SubscriptionCount(bus.subscribers) < MaxSubscriptions
    /\ \A i \in 1..Len(SubscribersOf(bus.subscribers, channel)) :
          bus.subscribers[channel][i] # callback
    /\ bus' = [bus EXCEPT !.subscribers = subscribe_outbound(@, channel, callback)]
    /\ UNCHANGED <<outbound, busFrame>>

\* MessageBus.publish_outbound (queue.py:83-93): the items are told apart by
\* their texts.
BusPublish(channel) ==
    LET n == Len(bus.pulled) + Len(outbound) + 1 IN
    /\ n <= MaxItems
    /\ outbound' = Append(outbound, OutboundMessage(channel, UserChat, <<ItemTexts[n]>>))
    /\ UNCHANGED <<bus, busFrame>>

Invocation(item, consumer) == [item |-> item, consumer |-> consumer, outcome |-> "pending"]
Pulled(item, consumers) == [item |-> item, consumers |-> consumers]

\* The outcome of the invocation awaited is entered in the log.
Settle(log, outcome) == [log EXCEPT ![Len(log)].outcome = outcome]

\* MessageBus.dispatch_outbound (queue.py:142-147): an item is pulled, the
\* channel's callbacks looked up, the first one called.
BusGet ==
    /\ bus.kind = "bus" /\ bus.pc = "get" /\ outbound # <<>>
    /\ LET msg == Head(outbound)
           subscribers == SubscribersOf(bus.subscribers, msg.channel)
           b == [bus EXCEPT !.msg = msg,
                            !.live = msg.channel \in DOMAIN bus.subscribers,
                            !.pulled = Append(@, Pulled(msg, subscribers))]
       IN bus' = IF subscribers = <<>>
                 THEN [b EXCEPT !.idx = 0]
                 ELSE [b EXCEPT !.pc = "call", !.idx = 1,
                                !.log = Append(@, Invocation(msg, subscribers[1]))]
    /\ outbound' = Tail(outbound)
    /\ UNCHANGED busFrame

\* The loop stops at the first callback that raises.
NextCallbackUnlessRaised(b, outcome) ==
    IF outcome = "raised" THEN [b EXCEPT !.pc = "get"]
    ELSE LET subscribers == IF b.live THEN b.subscribers[b.msg.channel] ELSE <<>> IN
         IF b.idx < Len(subscribers)
         THEN [b EXCEPT !.idx = @ + 1,
                        !.log = Append(@, Invocation(b.msg, subscribers[b.idx + 1]))]
         ELSE [b EXCEPT !.pc = "get"]

\* for callback in subscribers: try: await callback(msg) except Exception
\* (queue.py:147-152): whatever came of the callback, the next one is called,
\* and after the last one the loop pulls again.
NextCallback(b, outcome) ==
    LET subscribers == IF b.live THEN b.subscribers[b.msg.channel] ELSE <<>> IN
    IF b.idx < Len(subscribers)
    THEN [b EXCEPT !.idx = @ + 1,
                   !.log = Append(@, Invocation(b.msg, subscribers[b.idx + 1]))]
    ELSE [b EXCEPT !.pc = "get"]

\* The callback awaited returns or raises.
BusCallbackDone(outcome) ==
    /\ bus.kind = "bus" /\ bus.pc = "call"
    /\ bus' = NextCallback([bus EXCEPT !.log = Settle(@, outcome)], outcome)
    /\ UNCHANGED <<outbound, busFrame>>

\* A dispatcher that leaves an item in the queue when no such channel is
\* enabled.
ManagerGetKeepUnknown ==
    /\ bus.kind = "manager" /\ bus.pc = "get" /\ outbound # <<>>
    /\ LET msg == Head(outbound)
           known == msg.channel \in bus.channels
           b == [bus EXCEPT !.msg = msg,
                            !.pulled = Append(@, Pulled(msg, IF known THEN <<ChannelSend>>
                                                            ELSE <<>>))]
       IN /\ bus' = IF known
                    THEN [b EXCEPT !.pc = "call",
                                   !.log = Append(@, Invocation(msg, ChannelSend))]
                    ELSE b
          /\ outbound' = IF known THEN Tail(outbound) ELSE outbound
    /\ UNCHANGED busFrame

\* ChannelManager._dispatch_outbound (manager.py:280-297): an item is
\* pulled; its channel's send is called, or the item is dropped with a
\* warning when no such channel is enabled.
ManagerGet ==
    /\ bus.kind = "manager" /\ bus.pc = "get" /\ outbound # <<>>
    /\ LET msg == Head(outbound)
           known == msg.channel \in bus.channels
           b == [bus EXCEPT !.msg = msg,
                            !.pulled = Append(@, Pulled(msg, IF known THEN <<ChannelSend>>
                                                            ELSE <<>>))]
       IN bus' = IF known
                 THEN [b EXCEPT !.pc = "call",
                                !.log = Append(@, Invocation(msg, ChannelSend))]
                 ELSE b
    /\ outbound' = Tail(outbound)
    /\ UNCHANGED busFrame

\* channel.send returns or raises (manager.py:290-293).
ManagerSendDone(outcome) ==
    /\ bus.kind = "manager" /\ bus.pc = "call"
    /\ bus' = [bus EXCEPT !.pc = "get", !.log = Settle(@, outcome)]
    /\ UNCHANGED <<outbound, busFrame>>

CallOutcomes == {"returned", "raised"}

\* Either dispatcher runs, over any choice of enabled channels.
InitBus ==
    /\ tools = EmptyRegistry
    /\ lastExec = NoExec
    /\ latest = NoLatest
    /\ StoreIdle
    /\ AgentIdle
    /\ \E kind \in {"bus", "manager"}, enabled \in SUBSET BusChannels :
          /\ kind = "bus" => enabled = {}
          /\ bus = [BusIdle EXCEPT !.kind = kind, !.channels = enabled, !.pc = "get"]

NextBus ==
    \/ \E channel \in BusChannels, callback \in Callbacks :
          bus.kind = "bus" /\ BusSubscribe(channel, callback)
    \/ \E channel \in BusChannels \cup {UnknownChannel} : BusPublish(channel)
    \/ BusGet
    \/ \E outcome \in CallOutcomes : BusCallbackDone(outcome)
    \/ ManagerGet
    \/ \E outcome \in CallOutcomes : ManagerSendDone(outcome)

SpecBus == InitBus /\ [][NextBus]_vars

(***************************************************************************)
(* What the dispatcher's log says of an item.                              *)
(***************************************************************************)
IsPrefix(a, b) == Len(a) <= Len(b) /\ \A i \in 1..Len(a) : a[i] = b[i]

\* The invocations made with `item`, in the order they were made.
InvocationsOf(item) == SelectSeq(bus.log, LAMBDA e : e.item = item)
ConsumersIn(entries) == [i \in 1..Len(entries) |-> entries[i].consumer]

\* The k-th item pulled has been dealt with: the loop is past it.
ItemDone(k) == k < Len(bus.pulled) \/ bus.pc = "get"

NoDuplicates(seq) == \A i, j \in 1..Len(seq) : i # j => seq[i] # seq[j]

HasConsumer(channel) ==
    IF bus.kind = "bus" THEN SubscribersOf(bus.subscribers, channel) # <<>>
    ELSE channel \in bus.channels

C13_Claim ==
    (/\ bus.pc = "call"
     /\ outbound # <<>>
     /\ Head(outbound).channel # bus.msg.channel
     /\ HasConsumer(Head(outbound).channel))
    => ENABLED (BusGet \/ ManagerGet)

(***************************************************************************)
(* C15: an outbound item whose channel has no subscriber (or is no enabled *)
(* channel) is removed from the queue, delivered to no consumer and never  *)
(* queued again, and the loop is ready to pull the items after it; no item *)
(* is delivered to the same consumer more than once.                       *)
(***************************************************************************)
AtMostOnce ==
    /\ NoDuplicates([k \in 1..Len(bus.pulled) |-> bus.pulled[k].item])
    /\ \A k \in 1..Len(bus.pulled), i \in 1..Len(outbound) :
          outbound[i] # bus.pulled[k].item
    /\ \A k \in 1..Len(bus.pulled) :
          /\ bus.pulled[k].consumers = <<>> => InvocationsOf(bus.pulled[k].item) = <<>>
          /\ NoDuplicates(ConsumersIn(InvocationsOf(bus.pulled[k].item)))
    /\ \A i \in 1..Len(bus.log) :
          \E k \in 1..Len(bus.pulled) : bus.pulled[k].item = bus.log[i].item

DropGoesOn ==
    (/\ outbound # <<>>
     /\ ~HasConsumer(Head(outbound).channel)
     /\ Len(bus'.pulled) = Len(bus.pulled) + 1)
    => /\ outbound' = Tail(outbound)
       /\ bus'.pulled[Len(bus'.pulled)] = Pulled(Head(outbound), <<>>)
       /\ bus'.log = bus.log
       /\ bus'.pc = "get"

AwaitingTool == run.pc = "tools"

C14_Claim ==
    (/\ AwaitingTool
     /\ inbound # <<>>
     /\ session_key(Head(inbound)) # run.key)
    => ENABLED (\E readOk \in BOOLEAN : ConsumeChat(readOk))

(***************************************************************************)
(* C16: if a step of a consolidation call faults (the summarizer's call,   *)
(* parsing its answer, appending to the history log, writing the durable   *)
(* blob, persisting the truncated session), the session's turn list, in    *)
(* memory and as persisted, is after the call what it was before it.       *)
(* Observed where the pass has just left the consolidation it entered      *)
(* because the session was longer than the window, and waits for its       *)
(* first ReAct call.                                                       *)
(***************************************************************************)
JustLeftFailedConsolidation ==
    /\ run.cons = "failed" /\ ~run.archive_all
    /\ run.pc = "infer" /\ run.reactCalls = 1

C16_Claim ==
    JustLeftFailedConsolidation =>
        /\ cache[run.key].messages = run.before
        /\ _get_session_path(run.key) \in DOMAIN disk
        /\ _load(disk, run.key, clock).messages = run.before

(***************************************************************************)
(* C17: a fault at any step of consolidation, reading the durable blob     *)
(* included, does not leave consolidation: the message that triggered it   *)
(* still goes through the ReAct loop, and the pass's reply is not the      *)
(* apology for that fault.                                                 *)
(***************************************************************************)
ConsolidationFaulted == run.cons \in {"failed", "raised"}

C17_Claim ==
    (/\ run.pc = "idle" /\ run.kind = "user"
     /\ Cmd(run.msg.content) \notin {<<"/new">>, <<"/help">>}
     /\ ConsolidationFaulted)
    => /\ run.reactCalls >= 1
       /\ run.reply.content # ApologyText(<<"read_long_term">>)

(***************************************************************************)
(* C18: when a pass raises a fault that escapes message processing, the    *)
(* run loop emits exactly one apologetic outbound reply, addressed to the  *)
(* human conversation concerned (for a delegate's report, the origin       *)
(* conversation encoded in it), and is then ready to consume the next      *)
(* inbound message.                                                        *)
(***************************************************************************)
IsApology(out) == IsPrefix(ApologyText(<<>>), out.content)
ApologiesOfPass ==
    {i \in (run.outAt + 1)..Len(outbound) : IsApology(outbound[i])}
PassEndedByFault == run.pc = "idle" /\ run.outcome = "apology"

C18_Claim ==
    PassEndedByFault =>
        /\ Cardinality(ApologiesOfPass) = 1
        /\ \A i \in ApologiesOfPass :
              /\ outbound[i].channel = run.channel
              /\ outbound[i].chat_id = run.chat_id
        /\ inbound # <<>> =>
              ENABLED (ConsumeSystem \/ \E readOk \in BOOLEAN : ConsumeChat(readOk))

(***************************************************************************)
(* C19: a pass, user-originated or system-originated, in which all         *)
(* max_iterations inference calls return tool-call requests replies with   *)
(* the explicit text saying the run did not finish within the ceiling, as  *)
(* a normal reply: persisted as the assistant turn, no fault raised.  The  *)
(* loop goes round only after a response with tool calls, so a pass that   *)
(* ends out of the tool calls of iteration max_iterations is such a pass.  *)
(***************************************************************************)
EndsAtCeiling ==
    /\ run.pc = "tools" /\ run.iteration = max_iterations
    /\ run'.pc = "idle"

LastTurn(session) == session.messages[Len(session.messages)]

C19_Claim ==
    [][EndsAtCeiling =>
          /\ run'.outcome = "replied"
          /\ run'.reply.content = ReachedText
          /\ LastTurn(cache'[run.key]).role = "assistant"
          /\ LastTurn(cache'[run.key]).content = ReachedText
          /\ LastTurn(_load(disk', run.key, clock')).content = ReachedText]_vars

(***************************************************************************)
(* C20: when an inference call of the ReAct loop fails, the failure comes  *)
(* back as a text response without tool calls: the pass makes no further   *)
(* inference call, its outbound reply carries the error text, no           *)
(* top-level fault is raised, and the loop is ready for the next inbound   *)
(* message.                                                                *)
(***************************************************************************)
InferenceFailed == run.failedAt > 0
RepliedSincePassBegan ==
    \E i \in (run.outAt + 1)..Len(outbound) : outbound[i] = run.reply

C20_FailedInferenceIsReply ==
    InferenceFailed =>
        /\ run.pc = "idle"
        /\ run.reactCalls = run.failedAt
        /\ run.outcome = "replied"
        /\ \E e \in CompletionErrors : run.reply.content = ErrorCallingText(e)
        /\ RepliedSincePassBegan
        /\ ApologiesOfPass = {}
        /\ inbound # <<>> =>
              ENABLED (ConsumeSystem \/ \E readOk \in BOOLEAN : ConsumeChat(readOk))

\* The second call of a pass has failed, after a round of tool calls, and a
\* delegate's report waits to be consumed.
C20_Witness ==
    /\ run.failedAt = 2
    /\ run.requested # <<>>
    /\ inbound # <<>>
    /\ outbound # <<>> /\ outbound[Len(outbound)] = run.reply

(***************************************************************************)
(* C21: no delegate spawns another delegate or publishes an outbound       *)
(* message.  A tool call of a delegate that names spawn or message gets    *)
(* the not-found text as its result, and the only thing a delegate puts    *)
(* on the bus in its whole run is its one inbound announcement.            *)
(***************************************************************************)
\* Delegate i takes a step of its own run.
DelegateMoves(i) ==
    /\ i \in 1..Len(subagents)
    /\ subagents[i].pc \in {"start", "infer", "tools"}
    /\ <<subagents'[i].pc, subagents'[i].iteration, subagents'[i].executed>>
          # <<subagents[i].pc, subagents[i].iteration, subagents[i].executed>>

AnnouncesOnly(i) ==
    \/ inbound' = inbound /\ subagents'[i].announced = subagents[i].announced
    \/ /\ Len(inbound') = Len(inbound) + 1
       /\ SubSeq(inbound', 1, Len(inbound)) = inbound
       /\ inbound'[Len(inbound')].channel = SystemChannel
       /\ subagents'[i].pc = "finished"
       /\ Len(subagents'[i].announced) = 1

DelegateStepIsolated ==
    \A i \in 1..Len(subagents) :
        DelegateMoves(i) =>
            /\ Len(subagents') = Len(subagents)
            /\ running_tasks' = running_tasks
            /\ outbound' = outbound
            /\ AnnouncesOnly(i)

MainOnlyTools == {"spawn", "message"}
DelegateToolsNotFound ==
    \A i \in 1..Len(subagents) :
        \A k \in 1..Len(subagents[i].messages) :
            LET t == subagents[i].messages[k] IN
            (t.role = "tool" /\ t.name \in MainOnlyTools) =>
                t.content = NotFoundText(t.name)

C21_DelegatesAreLeaves ==
    /\ []DelegateToolsNotFound
    /\ [][DelegateStepIsolated]_vars

\* A running delegate has asked for message and for spawn and has both
\* results in its turn list.
C21_Witness ==
    \E i \in 1..Len(subagents) :
        /\ subagents[i].pc \in {"infer", "tools"}
        /\ \A n \in MainOnlyTools :
              \E k \in 1..Len(subagents[i].messages) :
                  /\ subagents[i].messages[k].role = "tool"
                  /\ subagents[i].messages[k].name = n

(***************************************************************************)
(* C22: spawn returns its acknowledgement without waiting for any          *)
(* inference call or tool call of the delegate.  The acknowledgement       *)
(* precedes the delegate's announcement, and the pass that called spawn    *)
(* can complete and reply while the delegate is still running.             *)
(***************************************************************************)
SpawnAck == <<"Subagent", "started">>
StillRunning(d) == d.pc \in {"start", "infer", "tools"}

\* The step that adds a delegate is the step that returns the
\* acknowledgement to the calling pass, and the delegate has done nothing.
SpawnReturnsAtOnce ==
    Len(subagents') > Len(subagents) =>
        LET d == subagents'[Len(subagents')] IN
        /\ Len(subagents') = Len(subagents) + 1
        /\ d.pc = "start" /\ d.iteration = 0
        /\ d.executed = <<>> /\ d.announced = <<>>
        /\ Len(run'.executed) = Len(run.executed) + 1
        /\ run'.messages # <<>> =>
              \E k \in 1..Len(run'.messages) :
                  /\ run'.messages[k].role = "tool"
                  /\ run'.messages[k].name = "spawn"
                  /\ run'.messages[k].tool_call_id = run'.executed[Len(run'.executed)]
                  /\ run'.messages[k].content = SpawnAck

\* The calling pass never waits for a delegate: the spawn call it awaits
\* can return whatever the delegates are at, and so can the inference call
\* it awaits while a delegate is running.
PassNeverWaitsForDelegate ==
    /\ (run.pc = "tools" /\ NextCall(run.pending).name = "spawn") => ENABLED Dispatch
    /\ (run.pc = "infer" /\ \E i \in 1..Len(subagents) : StillRunning(subagents[i])) =>
          ENABLED (\E completion \in
                      Completions(Offered(cfg.toolLists), Len(run.requested)) :
                          ChatReturn(completion))

C22_SpawnDoesNotWait ==
    /\ []PassNeverWaitsForDelegate
    /\ [][SpawnReturnsAtOnce]_vars

\* The pass that called spawn has replied and its delegate has not yet
\* made its first inference call.
C22_Witness ==
    /\ run.pc = "idle" /\ run.outcome = "replied" /\ run.kind = "user"
    /\ \E k \in 1..Len(run.tools_used) : run.tools_used[k] = "spawn"
    /\ Len(outbound) > run.outAt
    /\ \E i \in 1..Len(subagents) :
          subagents[i].pc = "start" /\ subagents[i].announced = <<>>

(***************************************************************************)
(* C23: origin round trip.  For every origin (channel, conversation) given *)
(* to spawn, conversation ids with ":" in them included, the delegate's    *)
(* announcement is processed against the session keyed                     *)
(* channel:conversation, and the reply to it is addressed to exactly that  *)
(* channel and conversation.                                               *)
(***************************************************************************)
EncodedOrigin(d) == d.origin.channel \o <<":">> \o d.origin.chat_id
\* The pass at hand processes the announcement of delegate d.
ProcessesReportOf(d) ==
    /\ run.kind = "system"
    /\ d.announced # <<>>
    /\ run.msg.chat_id = EncodedOrigin(d)

C23_OriginRoundTrip ==
    \A i \in 1..Len(subagents) :
        LET d == subagents[i] IN
        /\ Origin(EncodedOrigin(d)) = d.origin
        /\ ProcessesReportOf(d) =>
              /\ run.key = EncodedOrigin(d)
              /\ run.channel = d.origin.channel /\ run.chat_id = d.origin.chat_id
              /\ (run.pc = "idle" /\ run.outcome = "replied") =>
                    /\ run.reply.channel = d.origin.channel
                    /\ run.reply.chat_id = d.origin.chat_id
                    /\ outbound[Len(outbound)] = run.reply
                    /\ LastTurn(cache[EncodedOrigin(d)]).content = run.reply.content

\* The report of a delegate spawned from the conversation whose id holds
\* a ":" has been processed and answered.
C23_Witness ==
    \E i \in 1..Len(subagents) :
        /\ subagents[i].origin.chat_id = ColonChat
        /\ ProcessesReportOf(subagents[i])
        /\ run.pc = "idle" /\ run.outcome = "replied"
        /\ run.reply.chat_id = ColonChat

(***************************************************************************)
(* C25: the stop flag is checked between iterations.  Once stop is         *)
(* requested the inference call in flight is not interrupted, no new       *)
(* inference call is started and no further inbound message is consumed,   *)
(* and the run loop returns; without a stop request the run loop never     *)
(* returns.                                                                *)
(***************************************************************************)
StopRequested == ~run._running
Consumed == published - Len(inbound)

C25_Claim ==
    /\ StopRequested =>
          /\ Consumed = run.stopAt.consumed
          /\ run.calls = run.stopAt.calls
          /\ run.pc = "infer" =>
                ENABLED (\E completion \in
                            Completions(Offered(cfg.toolLists), Len(run.requested)) :
                                ChatReturn(completion))
          /\ (run.pc = "idle" /\ inbound = <<>>) => ENABLED ConsumeTimeout
    /\ ~StopRequested => run.pc # "returned"

(***************************************************************************)
(* C26: each pass that completes without fault appends exactly two turns   *)
(* to the session, the user turn then the final assistant turn, and none   *)
(* of the intermediate tool-call, tool-result or steering turns; the       *)
(* session is persisted before the reply is published, and exactly one     *)
(* reply is published, addressed to the originating conversation.          *)
(***************************************************************************)
CompletedWithoutFault == run.pc = "idle" /\ run.outcome = "replied"

\* What the session held when the ReAct loop was entered: what it held at
\* the start of the pass, or what consolidation kept of it.
KeptByConsolidation ==
    IF run.cons = "done" THEN {Retain(run.before, run.keep_count)}
    ELSE IF run.cons = "failed"
    THEN {run.before, Retain(run.before, run.keep_count)}
    ELSE {run.before}

TwoTurnsAppended ==
    LET turns == cache[run.key].messages
        n == Len(turns)
    IN /\ n >= 2
       /\ turns[n - 1].role = "user" /\ turns[n - 1].content = run.msg.content
       /\ turns[n].role = "assistant" /\ turns[n].content = run.reply.content
       /\ SubSeq(turns, 1, n - 2) \in KeptByConsolidation
       /\ \A k \in 1..n :
             /\ turns[k].role \in {"user", "assistant"}
             /\ turns[k].content # ReflectTurn.content

PersistedWhenPublished ==
    /\ _get_session_path(run.key) \in DOMAIN disk
    /\ _load(disk, run.key, clock).messages = cache[run.key].messages

OneReplyToOrigin ==
    /\ Len(outbound) = run.outAt + 1
    /\ outbound[Len(outbound)] = run.reply
    /\ run.reply.channel = run.msg.channel
    /\ run.reply.chat_id = run.msg.chat_id

ControlTurn == Cmd(run.msg.content) \in {<<"/new">>, <<"/help">>}

HelpTexts == {<<"/help">>, <<"/Help", " ">>}
PassOfControlTurn == run.kind = "user" /\ run.msg.content \in ControlTexts

ControlTurnOutsideReAct ==
    PassOfControlTurn =>
        /\ run.pc \in {"idle", "consolidate"}
        /\ run.reactCalls = 0 /\ run.iteration = 0
        /\ run.requested = <<>> /\ run.executed = <<>>
        /\ run.key \in DOMAIN cache =>
              /\ cache[run.key].messages \in {run.before, <<>>}
              /\ \A k \in 1..Len(cache[run.key].messages) :
                    cache[run.key].messages[k].content \notin ControlTexts

\* The step that consumes a "/help".
HelpConsumed ==
    /\ run.pc = "idle" /\ inbound # <<>>
    /\ Head(inbound).content \in HelpTexts
    /\ inbound' = Tail(inbound)

HelpChangesNothing ==
    HelpConsumed =>
        LET key == session_key(Head(inbound)) IN
        /\ run'.pc = "idle" /\ run'.reply.content = HelpText
        /\ disk' = disk
        /\ memory_file' = memory_file /\ history_file' = history_file
        /\ get_or_create(cache', disk', key, clock').messages
              = get_or_create(cache, disk, key, clock).messages

C27_ControlTurnsBypassReAct ==
    /\ []ControlTurnOutsideReAct
    /\ [][HelpChangesNothing]_vars

\* A "/Help " with a blank after it has been answered with the session
\* holding turns, and a " /NEW" has emptied a session that held turns.
C27_Witness ==
    /\ run.pc = "idle" /\ run.outcome = "replied"
    /\ \/ /\ run.msg.content = <<"/Help", " ">>
          /\ run.reply.content = HelpText
          /\ run.before # <<>> /\ cache[run.key].messages = run.before
       \/ /\ run.msg.content = <<" ", "/NEW">>
          /\ run.reply.content = NewSessionText
          /\ run.before # <<>> /\ cache[run.key].messages = <<>>

(***************************************************************************)
(* C28: in every ReAct loop, main and delegate, whenever an inference      *)
(* response with tool calls carries a side-channel payload, the assistant  *)
(* turn appended for that response carries the payload unchanged in every  *)
(* later inference call of the same pass.                                  *)
(***************************************************************************)
\* messages, the list every later inference call of the loop is given,
\* holds an assistant turn for the response with its payload as received.
EchoedIn(messages, response) ==
    \E k \in 1..Len(messages) :
        /\ messages[k].role = "assistant"
        /\ messages[k].tool_calls = response.tool_calls
        /\ messages[k].reasoning_content = response.reasoning_content

CarriesPayload(response) == response.reasoning_content # NoPayload

MainEchoesPayload ==
    run.pc \in {"infer", "tools"} =>
        \A k \in 1..Len(run.got) :
            CarriesPayload(run.got[k]) => EchoedIn(run.messages, run.got[k])

DelegateEchoesPayload ==
    \A i \in 1..Len(subagents) :
        subagents[i].pc \in {"infer", "tools"} =>
            \A k \in 1..Len(subagents[i].got) :
                CarriesPayload(subagents[i].got[k])
                    => EchoedIn(subagents[i].messages, subagents[i].got[k])

C28_Claim == MainEchoesPayload /\ DelegateEchoesPayload

(***************************************************************************)
(* C29: every spawned delegate terminates if its inference and tool calls  *)
(* return: it makes at most 15 inference calls, then publishes its         *)
(* announcement and its record is removed; at every moment the             *)
(* live-delegate count equals the number of spawned delegates that have    *)
(* not completed.                                                          *)
(***************************************************************************)
\* The delegate enters "infer" once per round of its loop, so iteration
\* counts its inference calls.
AtMostFifteenCalls ==
    \A i \in 1..Len(subagents) : subagents[i].iteration <= SubagentMaxIterations

\* A delegate that has returned has announced, once.
ReturnedHasAnnounced ==
    \A i \in 1..Len(subagents) :
        /\ subagents[i].pc \in {"finished", "gone"} => Len(subagents[i].announced) = 1
        /\ subagents[i].pc \notin {"finished", "gone"} => subagents[i].announced = <<>>

Removed(i) ==
    /\ i <= Len(subagents)
    /\ subagents[i].pc = "gone" /\ i \notin running_tasks
    /\ Len(subagents[i].announced) = 1

DelegateTerminates ==
    \A i \in 1..MaxSpawns : (i <= Len(subagents)) ~> Removed(i)

\* The delegates whose coroutine has not returned.
NotReturned == {i \in 1..Len(subagents) : subagents[i].pc \notin {"finished", "gone"}}
\* The delegates whose done callback has not run.
NotRemoved == {i \in 1..Len(subagents) : subagents[i].pc # "gone"}

\* As stated: the count is that of the delegates that have not returned.
C29_Claim == get_running_count = Cardinality(NotReturned)

\* The count is that of the delegates whose done callback has not run: a
\* delegate that has announced and returned is counted until then.
C29_Amended ==
    /\ []AtMostFifteenCalls
    /\ []ReturnedHasAnnounced
    /\ [](running_tasks = NotRemoved /\ get_running_count = Cardinality(NotRemoved))
    /\ DelegateTerminates

\* A delegate has made its fifteenth inference call, has been cut off
\* there, has announced and has been removed.
C29_Witness ==
    \E i \in 1..Len(subagents) :
        /\ subagents[i].iteration = SubagentMaxIterations
        /\ Len(subagents[i].executed) = SubagentMaxIterations
        /\ Removed(i)
        /\ get_running_count = 0

(***************************************************************************)
(* C24: within one process, at most one loop pass is in progress on a      *)
(* given session key at any time, counting passes started by the run loop  *)
(* and passes started through process_direct (cron jobs, heartbeat, CLI).  *)
(***************************************************************************)
InProgress(r) == r.pc \in {"infer", "tools", "consolidate"}

C24_OnePassPerKey ==
    /\ run.via # other.via
    /\ InProgress(run) /\ InProgress(other) => run.key # other.key

\* The run loop's pass for a user and the pass of a cron job of that same
\* conversation are in progress together.
C24_Witness ==
    /\ InProgress(run) /\ InProgress(other)
    /\ run.via = "loop" /\ other.via = "direct"
    /\ other.key = CronKey(<<"j">>)
    /\ other.channel = run.channel /\ other.chat_id = run.chat_id

(***************************************************************************)
(* C30: when a pass for conversation C invokes the spawn tool or the       *)
(* message tool without an explicit target, the delegate's origin and the  *)
(* message's destination are C, also when another pass for a different     *)
(* conversation D (process_direct from cron or heartbeat, or the run loop) *)
(* interleaves with it at an inference or tool suspension point.           *)
(***************************************************************************)
\* The pass in `run` executes the call at the head of its pending calls.
Executes(name) ==
    /\ run.pc = "tools" /\ NextCall(run.pending).name = name
    /\ run'.executed = Append(run.executed, NextCall(run.pending).id)

SpawnedForOwnConversation ==
    Executes("spawn") /\ Len(subagents') = Len(subagents) + 1
        => subagents'[Len(subagents')].origin = Ctx(run.channel, run.chat_id)

SentToOwnConversation ==
    Executes("message") /\ Len(outbound') > Len(outbound)
        => /\ outbound'[Len(outbound) + 1].channel = run.channel
           /\ outbound'[Len(outbound) + 1].chat_id = run.chat_id

C30_Claim == [][SpawnedForOwnConversation /\ SentToOwnConversation]_vars

(***************************************************************************)
(* C32: in every pass, user-originated or system-originated, if the        *)
(* session holds more turns than the configured window when the pass       *)
(* begins, consolidation runs to completion before the first inference     *)
(* call of the ReAct loop.                                                 *)
(***************************************************************************)
\* The pass has made its first call of the ReAct loop.
InReAct == run.pc \in {"infer", "tools"} /\ run.reactCalls >= 1
BeganOverWindow == Len(run.before) > cfg.memory_window
\* _consolidate_memory has been called and has returned: with nothing to
\* retire, with the summary applied, or with its fault swallowed.
ConsolidationReturned == run.cons \in {"noop", "done", "failed"}

UserPassConsolidatesFirst ==
    run.kind = "user" /\ InReAct /\ BeganOverWindow => ConsolidationReturned

C32_Claim == InReAct /\ BeganOverWindow => ConsolidationReturned

(***************************************************************************)
(* C33: after a successful threshold consolidation of a session of n       *)
(* turns (n greater than the window), the session is exactly its last      *)
(* k = min(10, max(2, window div 2)) turns in their original order and the *)
(* turns rendered for the summarizer are exactly the first n - k turns:    *)
(* every turn is either retired or retained, never both and never          *)
(* neither; on full archive all n turns are retired and the session is     *)
(* empty.                                                                  *)
(***************************************************************************)
\* The step in which a consolidation ends without fault.
ConsolidationSucceeds == run.pc = "consolidate" /\ run'.cons = "done"

TailSize ==
    LET h == cfg.memory_window \div 2
        m == IF h > 2 THEN h ELSE 2
    IN IF m < 10 THEN m ELSE 10
FirstTurns(turns, j) == [i \in 1..j |-> turns[i]]
LastTurns(turns, j) == [i \in 1..j |-> turns[Len(turns) - j + i]]
LinesOf(turns) == [i \in 1..Len(turns) |-> RenderLine(turns[i])]

RetiredAndRetained ==
    LET n == Len(run.before) IN
    ConsolidationSucceeds =>
        IF run.archive_all
        THEN /\ run.retired = run.before
             /\ cache'[run.key].messages = <<>>
        ELSE /\ n > cfg.memory_window /\ n > TailSize
             /\ run.retired = FirstTurns(run.before, n - TailSize)
             /\ cache'[run.key].messages = LastTurns(run.before, TailSize)
             /\ run.retired \o cache'[run.key].messages = run.before

\* As stated: every one of the first n - k turns is rendered.
AllRetiredRendered ==
    ConsolidationSucceeds => run.conversation = LinesOf(run.retired)

\* The retired turns that have content are rendered, in their order; a
\* turn with empty content is retired without a line.
RetiredWithContentRendered ==
    ConsolidationSucceeds =>
        run.conversation = LinesOf(SelectSeq(run.retired, HasContent))

C33_Claim == [][RetiredAndRetained /\ AllRetiredRendered]_vars

C33_Amended == [][RetiredAndRetained /\ RetiredWithContentRendered]_vars

\* A session of 21 turns against a window of 20 has been cut to its last
\* ten, one of the eleven retired turns having had no content.
C33_Witness ==
    /\ run.cons = "done" /\ ~run.archive_all
    /\ cfg.memory_window = 20 /\ Len(run.before) = 21
    /\ Len(run.retired) = 11 /\ Len(run.conversation) = 10
    /\ run.pc = "infer" /\ Len(cache[run.key].messages) = 10

(***************************************************************************)
(* C34: when "/new" clears a non-empty session, the cleared turns have     *)
(* been archived first: the session is emptied and the confirmation        *)
(* "Memory consolidated" is sent only after a consolidation of those turns *)
(* completed without fault.                                                *)
(***************************************************************************)
NewClearedTurns ==
    /\ run.kind = "user" /\ Cmd(run.msg.content) = <<"/new">>
    /\ run.before # <<>>
    /\ run.pc = "idle" /\ run.outcome = "replied"
    /\ run.reply.content = NewSessionText
    /\ cache[run.key].messages = <<>>

C34_Claim == NewClearedTurns => run.cons = "done" /\ run.retired = run.before

(***************************************************************************)
(* C35: across any sequence of consolidations, successful or faulting, the *)
(* history log only grows by appending: its content at any earlier time is *)
(* a prefix of its content at any later time, and one consolidation call   *)
(* appends at most one entry.                                              *)
(***************************************************************************)
IsPrefixOf(a, b) == Len(a) <= Len(b) /\ \A i \in 1..Len(a) : a[i] = b[i]

\* Every step is the return of at most one consolidation call, so a step
\* that adds at most one entry bounds what one call adds.
HistoryGrowsByOne ==
    /\ IsPrefixOf(history_file, history_file')
    /\ Len(history_file') <= Len(history_file) + 1
    /\ history_file' # history_file => run.pc = "consolidate" /\ run'.pc # "consolidate"

C35_HistoryAppendOnly == [][HistoryGrowsByOne]_vars

\* A second consolidation has added its entry after the first one's.
C35_Witness ==
    /\ Len(history_file) = 2 /\ history_file[1] # history_file[2]
    /\ run.cons \in {"done", "failed"}

(***************************************************************************)
(* C36: consolidation writes the durable-memory blob only when the         *)
(* replacement returned by the summarizer differs from the blob's current  *)
(* content; when the replacement equals the current content or is absent,  *)
(* the blob is left unchanged.                                             *)
(***************************************************************************)
ConsolidationReturns == run.pc = "consolidate" /\ run'.pc # "consolidate"

BlobWrittenOnlyIfChanged ==
    /\ ConsolidationReturns /\ run'.wrote
          => run'.update # memory_file /\ memory_file' = run'.update
    /\ ConsolidationReturns /\ run'.update \in {<<>>, memory_file}
          => ~run'.wrote /\ memory_file' = memory_file
    /\ memory_file' # memory_file => ConsolidationReturns /\ run'.wrote

C36_BlobWrittenOnlyIfChanged == [][BlobWrittenOnlyIfChanged]_vars

\* The summarizer has returned the blob as it is, and it was not written;
\* an earlier consolidation had written it.
C36_Witness ==
    /\ run.cons = "done" /\ run.consCalls = 1
    /\ memory_file # <<>> /\ run.update = memory_file
    /\ run.current_memory = memory_file /\ ~run.wrote

(***************************************************************************)
(* C37: a pass that ends in a top-level fault records no turn: the session *)
(* in memory and the session file hold neither the pass's user turn nor    *)
(* any assistant or tool turn of it.  The two turns of a pass are appended *)
(* and saved after the loop only (loop.py:359-374), so the turns of the    *)
(* session after the fault are turns it began with, the loop writes        *)
(* nothing between two of its steps, and the step that raises writes       *)
(* nothing.                                                                *)
(***************************************************************************)
IsSuffixOf(a, b) ==
    Len(a) <= Len(b) /\ \A i \in 1..Len(a) : a[i] = b[Len(b) - Len(a) + i]
PassOver == run.pc \in {"idle", "returned", "off"}
OnlyTurnsItBeganWith ==
    run.key \in DOMAIN cache => IsSuffixOf(cache[run.key].messages, run.before)
FaultStep == run' # run /\ run'.outcome = "apology" /\ run'.pc \in {"idle", "returned", "off"}
LoopStep == run.pc \in {"infer", "tools"} /\ run'.pc \in {"infer", "tools"}
\* The file is as it was, and every session the manager holds has the turns
\* the manager would have handed out before the step.
SessionAndFileUntouched ==
    /\ disk' = disk
    /\ \A k \in DOMAIN cache' :
          cache'[k].messages = get_or_create(cache, disk, k, clock).messages

Loaded(d, key) ==
    IF _get_session_path(key) \in DOMAIN d THEN {_load(d, key, 0)} ELSE {}
SavesSessionOf(k1) ==
    /\ k1 \in DOMAIN cache
    /\ disk' = save_disk(disk, cache[k1])
    /\ lastSave'.saved /\ lastSave'.session.key = k1
SaveLeavesOtherKeys ==
    \A k1 \in StoreKeys, k2 \in StoreKeys :
        k1 # k2 /\ SavesSessionOf(k1) => Loaded(disk', k2) = Loaded(disk, k2)

C38_Claim == [][SaveLeavesOtherKeys]_vars

(***************************************************************************)
(* C40: the turn list given to the first inference call of a pass is one   *)
(* system turn, then all turns stored in the session in their stored order *)
(* (role and content), then the current turn as the last element.          *)
(* get_history hands over the most recent HistoryMax turns only            *)
(* (manager.py:81-98), so the statement holds of the stored turns up to    *)
(* that number and of the last HistoryMax of them beyond it.               *)
(***************************************************************************)
AtFirstCall == run.pc = "infer" /\ run.reactCalls = 1 /\ run.key \in DOMAIN cache
StoredTurnsNow == cache[run.key].messages
RoleAndContent(turns) == [i \in 1..Len(turns) |-> LLMTurn(turns[i].role, turns[i].content)]
LastOf(turns, n) ==
    IF Len(turns) > n THEN SubSeq(turns, Len(turns) - n + 1, Len(turns)) ELSE turns
\* The list is one system turn, then `turns`, then the current turn.
ListFrames(turns) ==
    LET n == Len(run.messages) IN
    /\ n = Len(turns) + 2
    /\ run.messages[1].role = "system"
    /\ SubSeq(run.messages, 2, n - 1) = RoleAndContent(turns)
    /\ run.messages[n] = LLMTurn("user", run.msg.content)

C40_Claim == AtFirstCall => ListFrames(StoredTurnsNow)

C40_Amended == AtFirstCall => ListFrames(LastOf(StoredTurnsNow, HistoryMax))

\* A first call on a session of more turns than get_history hands over.
C40_Witness == AtFirstCall /\ Len(StoredTurnsNow) > HistoryMax

(***************************************************************************)
(* C39: if consolidation never faults and the configured window is at      *)
(* least 2, then after every completed pass, user-originated or delegate   *)
(* report, the session holds at most window + 2 turns.                     *)
(***************************************************************************)
PassCompleted ==
    /\ run.pc = "idle" /\ run.outcome = "replied"
    /\ run.kind \in {"user", "system"}
    /\ run.key \in DOMAIN cache
NoConsolidationFault == ~cfg.faults /\ run.cons \notin {"raised", "failed"}
WithinWindowPlusTwo == Len(cache[run.key].messages) <= cfg.memory_window + 2

C39_Claim ==
    PassCompleted /\ NoConsolidationFault /\ cfg.memory_window >= 2 => WithinWindowPlusTwo

\* The user-originated half.
UserPassWithinWindowPlusTwo ==
    PassCompleted /\ run.kind = "user" /\ NoConsolidationFault /\ cfg.memory_window >= 2
        => WithinWindowPlusTwo

(***************************************************************************)
(* The cron service (cron/service.py) in the gateway: one timer task       *)
(* sleeps until the earliest job is due, runs the due jobs one after the   *)
(* other through on_job, which is an agent turn (process_direct,           *)
(* commands.py:429-444), saves the store and arms the next timer.  The     *)
(* turn is a series of awaited inference calls; between two of them the    *)
(* cron tool may run (tools/cron.py:112-143), which calls add_job,         *)
(* list_jobs or remove_job of the same service.                            *)
(*   A tick task is at "sleep" (asyncio.sleep, service.py:247), at         *)
(* "on_job" (an awaited inference call of the job's turn, service.py:290), *)
(* "done" or "cancelled".  Task.cancel() marks the task; the               *)
(* CancelledError is raised in it at the await it is suspended at.         *)
(***************************************************************************)
MaxJobs == 2
MaxTimerTasks == 4
MaxCronNow == 2
EveryMs == {1, 2}
CronOps == {"add", "list", "remove"}

\* _compute_next_run for an "every" schedule (service.py:45-49)
_compute_next_run(every_ms, now_ms) == now_ms + every_ms

\* CronJob as add_job builds it (service.py:355-371)
CronJobOf(id, every_ms, now_ms) ==
    [id |-> id, enabled |-> TRUE, every_ms |-> every_ms,
     next_run_at_ms |-> _compute_next_run(every_ms, now_ms),
     last_run_at_ms |-> 0, last_status |-> ""]

\* _get_next_wake_ms (service.py:228-233); 0 stands for None.
IsScheduled(j) == j.enabled /\ j.next_run_at_ms # 0
_get_next_wake_ms(jobs) ==
    LET times == {jobs[i].next_run_at_ms : i \in {k \in DOMAIN jobs : IsScheduled(jobs[k])}}
    IN IF times = {} THEN 0 ELSE CHOOSE x \in times : \A y \in times : x <= y

\* tick() as create_task leaves it (service.py:246-252)
TickTask(wake) ==
    [pc |-> "sleep", wake |-> wake, must_cancel |-> FALSE, due |-> <<>>,
     start_ms |-> 0, calls |-> 0, finished |-> <<>>, aborted |-> 0]

\* Task.cancel(): a task that has ended is left alone.
CancelTask(tasks, t) ==
    IF t # 0 /\ tasks[t].pc \in {"sleep", "on_job"}
    THEN [tasks EXCEPT ![t].must_cancel = TRUE]
    ELSE tasks

\* _arm_timer (service.py:235-252)
_arm_timer(c) ==
    LET ts == CancelTask(c.tasks, c._timer_task)
        next_wake == _get_next_wake_ms(c.jobs)
    IN IF next_wake = 0 \/ ~c._running
       THEN [c EXCEPT !.tasks = ts]
       ELSE [c EXCEPT !.tasks = Append(ts, TickTask(Max(c.now, next_wake))),
                      !._timer_task = Len(ts) + 1]

\* _save_store (service.py:160-200)
_save_store(c) == [c EXCEPT !.saved = c.jobs]

\* add_job (service.py:329-379)
add_job(c, every_ms) ==
    _arm_timer(_save_store(
        [c EXCEPT !.jobs = Append(@, CronJobOf(c.created + 1, every_ms, c.now)),
                  !.created = @ + 1]))

\* remove_job (service.py:381-393)
remove_job(c, job_id) ==
    LET kept == SelectSeq(c.jobs, LAMBDA j : j.id # job_id) IN
    IF Len(kept) < Len(c.jobs)
    THEN _arm_timer(_save_store([c EXCEPT !.jobs = kept]))
    ELSE c

\* CronTool.execute (tools/cron.py:112-143) with the action `op`.
CronToolExecute(c, op, every_ms, job_id) ==
    CASE op = "add" -> add_job(c, every_ms)
      [] op = "remove" -> remove_job(c, job_id)
      [] OTHER -> c

\* The jobs _on_timer finds due (service.py:259-263), in the store's order.
DueJobs(c) ==
    LET due == SelectSeq(c.jobs, LAMBDA j : IsScheduled(j) /\ c.now >= j.next_run_at_ms)
    IN [i \in 1..Len(due) |-> due[i].id]

\* The end of _on_timer (service.py:268-269); the tick task returns.
EndOnTimer(c, t) ==
    LET armed == _arm_timer(_save_store(c)) IN
    [armed EXCEPT !.tasks[t].pc = "done", !.tasks[t].due = <<>>]

\* _on_timer's loop (service.py:265-266): the next due job's _execute_job is
\* entered up to its await of on_job, or the loop has ended.
ExecuteNext(c, t, due) ==
    IF due = <<>> THEN EndOnTimer(c, t)
    ELSE [c EXCEPT !.tasks[t].pc = "on_job", !.tasks[t].due = due,
                   !.tasks[t].start_ms = c.now, !.tasks[t].calls = 1]

\* _execute_job after on_job (service.py:291-312), for a job of kind
\* "every": the job object is updated, in the store if it is still there.
AfterOnJob(c, t, status) ==
    LET task == c.tasks[t]
        id == Head(task.due)
        jobs == [i \in DOMAIN c.jobs |->
                    IF c.jobs[i].id = id
                    THEN [c.jobs[i] EXCEPT
                             !.last_status = status,
                             !.last_run_at_ms = task.start_ms,
                             !.next_run_at_ms = _compute_next_run(c.jobs[i].every_ms, c.now)]
                    ELSE c.jobs[i]]
    IN ExecuteNext([c EXCEPT !.jobs = jobs, !.tasks[t].finished = Append(@, id)],
                   t, Tail(task.due))

\* CronService.start (service.py:202-209) of a service whose store holds one
\* job: the gateway is up and the first timer armed.
InitCron ==
    /\ tools = EmptyRegistry
    /\ lastExec = NoExec
    /\ latest = NoLatest
    /\ StoreIdle
    /\ inbound = <<>> /\ outbound = <<>> /\ published = 0
    /\ memory_file = <<>> /\ history_file = <<>> /\ files = InitFiles
    /\ cfg = NoCfg /\ run = NewRun
    /\ message_ctx = NoCtx /\ spawn_ctx = DefaultCtx
    /\ subagents = <<>> /\ running_tasks = {}
    /\ other = NoDirect
    /\ bus = BusIdle
    /\ \E every_ms \in EveryMs :
          cron = _arm_timer(_save_store(
                    [CronIdle EXCEPT !._running = TRUE, !.created = 1,
                                     !.jobs = <<CronJobOf(1, every_ms, 0)>>]))

cronFrame == <<registryVars, storeVars, inbound, outbound, published, memory_file,
               history_file, files, cfg, run, message_ctx, spawn_ctx, subagents,
               running_tasks, other, bus>>

\* Time passes.
CronTick ==
    /\ cron.now < MaxCronNow
    /\ cron' = [cron EXCEPT !.now = @ + 1]
    /\ UNCHANGED cronFrame

\* The sleep of tick() is over (service.py:247-249): _on_timer runs up to
\* its first await.
TimerFires(t) ==
    /\ Len(cron.tasks) < MaxTimerTasks
    /\ cron.tasks[t].pc = "sleep" /\ ~cron.tasks[t].must_cancel
    /\ cron.now >= cron.tasks[t].wake
    /\ cron' = IF cron._running THEN ExecuteNext(cron, t, DueJobs(cron))
               ELSE [cron EXCEPT !.tasks[t].pc = "done"]
    /\ UNCHANGED cronFrame

\* An inference call of the job's turn returns a request for the cron tool;
\* the tool runs and the turn awaits its next inference call
\* (loop.py:312-350).
TurnCallsCronTool(t, op, every_ms, job_id) ==
    /\ Len(cron.tasks) < MaxTimerTasks - 1
    /\ cron.tasks[t].pc = "on_job" /\ ~cron.tasks[t].must_cancel
    /\ cron.tasks[t].calls < max_iterations
    /\ op = "add" => cron.created < MaxJobs
    /\ cron' = [CronToolExecute(cron, op, every_ms, job_id) EXCEPT
                   !.tasks[t].calls = @ + 1]
    /\ UNCHANGED cronFrame

\* The job's turn ends, with its answer or with an exception: on_job is over
\* and _execute_job goes on (service.py:288-312).
TurnEnds(t, status) ==
    /\ cron.tasks[t].pc = "on_job" /\ ~cron.tasks[t].must_cancel
    /\ cron' = AfterOnJob(cron, t, status)
    /\ UNCHANGED cronFrame

\* The CancelledError is raised at the await the task is suspended at.  It
\* is no Exception: neither ToolRegistry.execute, the provider nor
\* _execute_job (service.py:295) catches it, and the task ends.
CancelledAtAwait(t) ==
    /\ cron.tasks[t].pc \in {"sleep", "on_job"} /\ cron.tasks[t].must_cancel
    /\ cron' = [cron EXCEPT !.tasks[t].pc = "cancelled",
                            !.tasks[t].aborted =
                                IF cron.tasks[t].pc = "on_job"
                                THEN Head(cron.tasks[t].due) ELSE 0]
    /\ UNCHANGED cronFrame

NextCron ==
    \/ CronTick
    \/ \E t \in 1..Len(cron.tasks) : TimerFires(t)
    \/ \E t \in 1..Len(cron.tasks), op \in CronOps, every_ms \in EveryMs,
          job_id \in 1..MaxJobs : TurnCallsCronTool(t, op, every_ms, job_id)
    \/ \E t \in 1..Len(cron.tasks), status \in {"ok", "error"} : TurnEnds(t, status)
    \/ \E t \in 1..Len(cron.tasks) : CancelledAtAwait(t)

SpecCron == InitCron /\ [][NextCron]_vars

(***************************************************************************)
(* C31: a cron job execution started by the timer runs to completion: its  *)
(* on_job callback finishes and the job's last-run and next-run state is   *)
(* updated and saved, also when the agent turn it triggers calls add_job,  *)
(* remove_job or enable_job, which re-arm the timer by cancelling the      *)
(* current timer task.  Stated as: no tick task ends cancelled inside a    *)
(* job's execution, and a tick task that has ended has finished every job  *)
(* it began and left the store saved.                                      *)
(***************************************************************************)
NoExecutionCutOff ==
    \A t \in 1..Len(cron.tasks) :
        cron.tasks[t].pc = "cancelled" => cron.tasks[t].aborted = 0

C31_Claim == NoExecutionCutOff

\* An execution that ran to its end: the tick task has returned, the job
\* it ran is updated and the store saved.
ExecutionCompleted ==
    \E t \in 1..Len(cron.tasks) :
        /\ cron.tasks[t].pc = "done" /\ cron.tasks[t].finished # <<>>
        /\ cron.saved = cron.jobs

====
